---- MODULE Spec2Model ----
(***************************************************************************)
(* A model of the L8 Smartlight driver (Library/L8.js): the frame codec    *)
(* (buildFrame, parseFrames_), the receive path (onResponse_), the         *)
(* request/response correlation of sendFrame, and the connection handling  *)
(* (open, close) on top of a serial port.                                  *)
(***************************************************************************)
EXTENDS Integers, Sequences, FiniteSets, TLC

\* ------------------------------------------------------------------------
\* Bounds of the model
\* ------------------------------------------------------------------------
MaxFrames == 2      \* frames per stream in the chunking harness
MaxParams == 2      \* parameter bytes of a short frame
MaxOpens == 1       \* open() calls per session
MaxReopens == 2     \* open() calls per session where it reconnects
MaxPromises == 3    \* calls without a callback per session
MaxSends == 2       \* sendFrame() calls per session
MaxLength == 250    \* parameter bytes of a long frame
MaxPieces == 2      \* pieces per raw byte stream in the decoder harness
MaxEncodeLength == 256  \* parameter bytes handed to buildFrame at the limit
MaxCalls == 1       \* commands in flight in the command specification
MaxPolls == 3       \* polls of the acceleration stream
MaxSegments == 4    \* L8s in a grid
MaxGridCalls == 1   \* calls of L8Grid methods

\* ------------------------------------------------------------------------
\* Program constants
\* ------------------------------------------------------------------------
BufferCapacity == 4096
MAGIC_BYTES == <<170, 85>>

\* SLCP command table (Library/SLCP.js)
CMD_OK == 0
CMD_ERR == 255
CMD_PING == 1
CMD_L8_ACC_QUERY == 76
CMD_L8_ACC_RESPONSE == 77
CMD_L8_SET_TEXT == 131
CMD_L8_SET_AUTOROTATE == 134
CMD_L8_STORE_FRAME == 112
CMD_L8_STORE_FRAME_RESPONSE == 113
CMD_L8_LED_SET == 67
CMD_L8_MATRIX_SET == 68
CMD_L8_SET_ORIENTATION == 128
CMD_L8_STORE_ANIM == 119
CMD_L8_STORE_ANIM_RESPONSE == 120

\* The value of a missing property or an out-of-range index in JavaScript
Undefined == -1

\* ------------------------------------------------------------------------
\* Bytes, hex strings, CRC-8
\* ------------------------------------------------------------------------
Byte == 0..255

Min(a, b) == IF a < b THEN a ELSE b

RECURSIVE BitXor(_, _)
BitXor(a, b) ==
    IF a = 0 THEN b
    ELSE IF b = 0 THEN a
    ELSE (((a % 2) + (b % 2)) % 2) + 2 * BitXor(a \div 2, b \div 2)

\* One table entry of the CRC-8 with polynomial x^8 + x^2 + x + 1
RECURSIVE Crc8Bits(_, _)
Crc8Bits(c, n) ==
    IF n = 0 THEN c
    ELSE Crc8Bits(IF c >= 128 THEN BitXor((c * 2) % 256, 7) ELSE (c * 2) % 256,
                  n - 1)

CRC8_TABLE == [i \in Byte |-> Crc8Bits(i, 8)]

\* The running CRC over bytes[lo..hi], starting from crc (the byte loop of
\* the library, split in halves to keep the evaluation shallow)
RECURSIVE Crc8Value(_, _, _, _)
Crc8Value(bytes, crc, lo, hi) ==
    IF lo > hi THEN crc
    ELSE IF lo = hi THEN CRC8_TABLE[BitXor(crc, bytes[lo])]
    ELSE LET mid == (lo + hi) \div 2
             left == Crc8Value(bytes, crc, lo, mid)
         IN  IF left \in Byte THEN Crc8Value(bytes, left, mid + 1, hi) ELSE left

\* Buffer.toString("hex") of one byte: two hex digits
ToHex(b) == <<b \div 16, b % 16>>

\* Buffer.toString("hex") of a buffer
ToHexString(bytes) ==
    [i \in 1..(2 * Len(bytes)) |-> ToHex(bytes[(i + 1) \div 2])[2 - (i % 2)]]

\* new Buffer(string, "hex")
FromHexString(hex) ==
    [i \in 1..(Len(hex) \div 2) |-> hex[2 * i - 1] * 16 + hex[2 * i]]

\* CRC.crc8(buffer): the checksum as a hex string
crc8(bytes) == ToHex(Crc8Value(bytes, 0, 1, Len(bytes)))

\* ------------------------------------------------------------------------
\* Frame codec
\* ------------------------------------------------------------------------

\* buildFrame with the length byte counting the parameters only
buildFrame_lengthWithoutCommand(command, parametersBuffer) ==
    LET fullPayloadBuffer == <<command % 256>> \o parametersBuffer
    IN  MAGIC_BYTES \o <<Len(parametersBuffer) % 256>> \o fullPayloadBuffer
            \o FromHexString(crc8(fullPayloadBuffer))

\* L8.prototype.buildFrame
buildFrame(command, parametersBuffer) ==
    LET commandBuffer == <<command % 256>>
        fullPayloadBuffer == commandBuffer \o parametersBuffer
        contentLengthBuffer == <<Len(fullPayloadBuffer) % 256>>
        frameLength == 2 + 1 + Len(fullPayloadBuffer) + 1
        checksumBuffer == FromHexString(crc8(fullPayloadBuffer))
        all == MAGIC_BYTES \o contentLengthBuffer \o fullPayloadBuffer
                   \o checksumBuffer
    IN  SubSeq(all, 1, Min(frameLength, Len(all)))

\* The frame object pushed by parseFrames_
Frame(payloadBuffer, payloadLength, receivedChecksum) ==
    [command |-> IF payloadBuffer = <<>> THEN Undefined ELSE payloadBuffer[1],
     parameters |-> IF payloadBuffer = <<>> THEN <<>> ELSE Tail(payloadBuffer),
     checksum |-> receivedChecksum,
     payloadLength |-> payloadLength,
     payload |-> payloadBuffer]

\* parseFrames_ without the loop: at most one frame is decoded per call
parseFrames_onlyFirst(receiveBuffer, frames) ==
    LET data == receiveBuffer.buffer
        length == receiveBuffer.length
        result(fs, rb, error) == [frames |-> fs, receiveBuffer |-> rb,
                                  error |-> error]
    IN  IF length < 4 THEN result(frames, receiveBuffer, "none")
        ELSE IF data[1] # MAGIC_BYTES[1] \/ data[2] # MAGIC_BYTES[2]
        THEN result(frames, receiveBuffer, "magic")
        ELSE LET payloadLength == data[3]
                 frameSize == 2 + 1 + payloadLength + 1
                 payloadBuffer == SubSeq(data, 4, 3 + payloadLength)
                 receivedChecksum == ToHex(data[frameSize])
             IN  IF length < frameSize THEN result(frames, receiveBuffer, "none")
                 ELSE IF crc8(payloadBuffer) # receivedChecksum
                 THEN result(frames, receiveBuffer, "checksum")
                 ELSE result(Append(frames, Frame(payloadBuffer, payloadLength,
                                                  receivedChecksum)),
                             [buffer |-> SubSeq(data, frameSize + 1, Len(data)),
                              length |-> length - frameSize],
                             "none")

\* The decoding loop with the magic test or the checksum test left out
RECURSIVE parseFrames_without(_, _, _)
parseFrames_without(test, receiveBuffer, frames) ==
    LET data == receiveBuffer.buffer
        length == receiveBuffer.length
        result(error) == [frames |-> frames, receiveBuffer |-> receiveBuffer,
                          error |-> error]
    IN  IF length < 4 THEN result("none")
        ELSE IF /\ test # "magic"
                /\ (data[1] # MAGIC_BYTES[1] \/ data[2] # MAGIC_BYTES[2])
        THEN result("magic")
        ELSE LET payloadLength == data[3]
                 frameSize == 2 + 1 + payloadLength + 1
             IN  IF length < frameSize THEN result("none")
                 ELSE LET payloadBuffer == SubSeq(data, 4, 3 + payloadLength)
                          receivedChecksum == ToHex(data[frameSize])
                      IN  IF /\ test # "checksum"
                             /\ crc8(payloadBuffer) # receivedChecksum
                          THEN result("checksum")
                          ELSE parseFrames_without(test,
                                  [buffer |-> SubSeq(data, frameSize + 1,
                                                     Len(data)),
                                   length |-> length - frameSize],
                                  Append(frames,
                                         Frame(payloadBuffer, payloadLength,
                                               receivedChecksum)))

parseFrames_noMagicTest(receiveBuffer, frames) ==
    parseFrames_without("magic", receiveBuffer, frames)

parseFrames_noChecksumTest(receiveBuffer, frames) ==
    parseFrames_without("checksum", receiveBuffer, frames)

\* L8.prototype.parseFrames_: the loop over the receive buffer.  The result
\* carries the frames decoded so far, the receive buffer as the loop left
\* it, and the exception that ended the loop ("none" when it ended normally).
RECURSIVE parseFrames_(_, _)
parseFrames_(receiveBuffer, frames) ==
    LET data == receiveBuffer.buffer
        length == receiveBuffer.length
        result(error) == [frames |-> frames, receiveBuffer |-> receiveBuffer,
                          error |-> error]
    IN  IF ~(length > 0) THEN result("none")
        ELSE IF length < 4 THEN result("none")
        ELSE IF data[1] # MAGIC_BYTES[1] \/ data[2] # MAGIC_BYTES[2]
        THEN result("magic")
        ELSE LET payloadLength == data[3]
                 frameSize == 2 + 1 + payloadLength + 1
             IN  IF length < frameSize THEN result("none")
                 ELSE LET payloadBuffer == SubSeq(data, 4, 3 + payloadLength)
                          checksumPosition == 2 + 1 + payloadLength
                          receivedChecksum ==
                              ToHexString(SubSeq(data, checksumPosition + 1,
                                                 checksumPosition + 1))
                          calculatedChecksum == crc8(payloadBuffer)
                      IN  IF calculatedChecksum # receivedChecksum
                          THEN result("checksum")
                          ELSE parseFrames_(
                                  [buffer |-> SubSeq(data, frameSize + 1, Len(data)),
                                   length |-> length - frameSize],
                                  Append(frames,
                                         Frame(payloadBuffer, payloadLength,
                                               receivedChecksum)))

\* L8.prototype.onResponse_, up to the emit loop: copy the chunk behind the
\* buffered bytes (Buffer.copy stops at the end of the target) and parse.
appendChunk(receiveBuffer, data) ==
    LET room == BufferCapacity - receiveBuffer.length
        copied == IF room <= 0 THEN <<>>
                  ELSE SubSeq(data, 1, Min(Len(data), room))
    IN  [buffer |-> receiveBuffer.buffer \o copied,
         length |-> receiveBuffer.length + Len(data)]

onResponseParse(receiveBuffer, data) ==
    parseFrames_(appendChunk(receiveBuffer, data), <<>>)

\* ------------------------------------------------------------------------
\* Session state
\* ------------------------------------------------------------------------
VARIABLES
    isConnected,      \* L8#isConnected
    serialport_,      \* L8#serialport_: 0 is null, else an index into ports
    receiveBuffer_,   \* L8#receiveBuffer_: [buffer, length]
    listeners,        \* the "frameReceived" listeners of sendFrame, in
                      \* registration order (request indices)
    requests,         \* one record per sendFrame call that reached write();
                      \* registration is the rank of its this.on() call
                      \* among all (0: none yet), calls counts fn() calls
    ports,            \* the SerialPort objects created by open()
    crashed,          \* the exception that escaped an event callback
    emitted,          \* the frameReceived events of the step just taken
    frameSent,        \* number of frameSent events
    writeCalls,       \* number of serialport_.write() calls
    lastThrow,        \* the exception the step just taken threw to its caller
    accelerationStream, \* the AccelerationStream created on this L8
    promises,         \* the promises returned by calls without a callback
    grid_,            \* GridDescription#grid_, after toGrid L8Grid#grid_
    built,            \* toGrid has been called and the L8Grid constructed
    gridCalls,        \* one record per call of a method of the L8Grid
    deviceCalls,      \* the calls the L8Grid has made on the segments' L8s
    gridThrow,        \* the exception the grid call just made threw
    original,         \* harness: the frames that were encoded
    stream,           \* harness: the encoded bytes not yet delivered
    received,         \* harness: log of an observer of "frameReceived"
    phase,            \* harness: "idle", "feeding", "raw"
    bytewise          \* harness: every chunk so far was a single byte

vars == <<isConnected, serialport_, receiveBuffer_, listeners, requests, ports,
          crashed, emitted, frameSent, writeCalls, lastThrow,
          accelerationStream, promises, grid_, built, gridCalls, deviceCalls, gridThrow,
          original, stream, received, phase, bytewise>>

sessionVars == <<isConnected, serialport_, listeners, requests, ports,
                 frameSent, writeCalls, lastThrow, accelerationStream,
                 promises>>

harnessVars == <<original, stream, received, phase, bytewise>>

gridVars == <<grid_, built, gridCalls, deviceCalls, gridThrow>>

\* The AccelerationStream constructor.  reading is the flag of the
\* Readable it extends: set when _read is called, cleared by push.  attached
\* says that a consumer is reading; timers, polls and pushed count the
\* pending setTimeout callbacks and the poll_ and push calls so far.
AccelerationStream ==
    [cooldown_ |-> FALSE, requested_ |-> FALSE, reading |-> FALSE,
     attached |-> FALSE, timers |-> 0, polls |-> 0, pushed |-> 0]

\* The L8 constructor
InitSession ==
    /\ isConnected = FALSE
    /\ serialport_ = 0
    /\ receiveBuffer_ = [buffer |-> <<>>, length |-> 0]
    /\ listeners = <<>>
    /\ requests = <<>>
    /\ ports = <<>>
    /\ crashed = "none"
    /\ emitted = <<>>
    /\ frameSent = 0
    /\ writeCalls = 0
    /\ lastThrow = "none"
    /\ accelerationStream = AccelerationStream
    /\ promises = <<>>

\* ------------------------------------------------------------------------
\* Request/response correlation (sendFrame)
\* ------------------------------------------------------------------------

\* expectedResponse and handleError values: false, true, or
\* {command, parameters?}
ExpectFalse == [kind |-> "false", command |-> Undefined, hasParameters |-> FALSE,
                parameters |-> <<>>]
ExpectTrue == [kind |-> "true", command |-> Undefined, hasParameters |-> FALSE,
               parameters |-> <<>>]
ExpectCommand(c) == [kind |-> "object", command |-> c, hasParameters |-> FALSE,
                     parameters |-> <<>>]
ExpectFrame(c, p) == [kind |-> "object", command |-> c, hasParameters |-> TRUE,
                      parameters |-> p]

\* buffer[i] and frame.parameters[i] with JavaScript's 0-based index
At(bytes, i) == IF i + 1 <= Len(bytes) THEN bytes[i + 1] ELSE Undefined

\* The error test without the comparison with the sent command byte
isErrorFrame_anyError(frame, buffer, handleError) ==
    \/ handleError.kind = "true" /\ frame.command = CMD_ERR
    \/ /\ handleError.kind # "true"
       /\ frame.command = handleError.command
       /\ handleError.hasParameters =>
              ToHexString(frame.parameters) = ToHexString(handleError.parameters)

\* The error test at the head of onReceive
isErrorFrame(frame, buffer, handleError) ==
    \/ /\ handleError.kind = "true"
       /\ frame.command = CMD_ERR
       /\ At(frame.parameters, 0) = At(buffer, 3)
    \/ /\ handleError.kind # "true"
       /\ \/ /\ handleError.hasParameters
             /\ frame.command = handleError.command
             /\ ToHexString(frame.parameters) = ToHexString(handleError.parameters)
          \/ /\ ~handleError.hasParameters
             /\ frame.command = handleError.command

\* The test for the awaited response without the comparison with the sent
\* command byte
isAwaitedFrame_anyOk(frame, buffer, expectedResponse) ==
    IF expectedResponse.kind = "true"
    THEN frame.command = CMD_OK
    ELSE /\ frame.command = expectedResponse.command
         /\ expectedResponse.hasParameters =>
                ToHexString(frame.parameters)
                    = ToHexString(expectedResponse.parameters)

\* The test for the awaited response without the comparison of the
\* parameters
isAwaitedFrame_commandOnly(frame, buffer, expectedResponse) ==
    IF expectedResponse.kind = "true"
    THEN ~(frame.command # CMD_OK \/ At(frame.parameters, 0) # At(buffer, 3))
    ELSE frame.command = expectedResponse.command

\* The test for the awaited response in onReceive
isAwaitedFrame(frame, buffer, expectedResponse) ==
    IF expectedResponse.kind = "true"
    THEN ~(frame.command # CMD_OK \/ At(frame.parameters, 0) # At(buffer, 3))
    ELSE /\ ~(frame.command # expectedResponse.command)
         /\ ~(/\ expectedResponse.hasParameters
              /\ ToHexString(frame.parameters)
                     # ToHexString(expectedResponse.parameters))

\* onReceive without the error test
onReceive_noErrorTest(frame, req) ==
    IF isAwaitedFrame(frame, req.buffer, req.expectedResponse) THEN "ok"
    ELSE "skip"

\* onReceive: "error" and "ok" settle the request, "skip" keeps listening
onReceive(frame, req) ==
    IF isErrorFrame(frame, req.buffer, req.handleError) THEN "error"
    ELSE IF isAwaitedFrame(frame, req.buffer, req.expectedResponse) THEN "ok"
    ELSE "skip"

\* A completion that is always told the send succeeded
settle_asSuccess(req, outcome) ==
    [req EXCEPT !.stage = "done", !.calls = @ + 1, !.outcome = "ok"]

\* fn(error, result) of a request
settle(req, outcome) ==
    [req EXCEPT !.stage = "done", !.calls = @ + 1, !.outcome = outcome]

\* The listener is left registered
RemoveListener_keeps(lst, r) == lst

\* this.removeListener("frameReceived", onReceive)
RemoveListener(lst, r) == SelectSeq(lst, LAMBDA x : x # r)

\* The callbacks handed to sendFrame as fn: the caller's completion, the
\* function of setOrientation that sends the orientation code, and the
\* iterator callback of async.mapSeries in prepareAnimation
FnThen == [type |-> "fn", orientation |-> "", rest |-> <<>>,
           durations |-> <<>>, indices |-> <<>>]
OrientationThen(orientation) ==
    [type |-> "orientation", orientation |-> orientation, rest |-> <<>>,
     durations |-> <<>>, indices |-> <<>>]
MapSeriesThen(rest, durations, indices) ==
    [type |-> "mapSeries", orientation |-> "", rest |-> rest,
     durations |-> durations, indices |-> indices]
\* The callback of getAcceleration that hands on to onResponse_ of the
\* acceleration stream
StreamThen == [type |-> "stream", orientation |-> "", rest |-> <<>>,
               durations |-> <<>>, indices |-> <<>>]

\* The part of the session a call chain works on: thrown is the exception
\* that ended it, emitted the frameReceived events it has emitted, call the
\* first request of the user's call the chain belongs to
Running == [requests |-> requests, listeners |-> listeners,
            writeCalls |-> writeCalls, thrown |-> "none", emitted |-> <<>>,
            call |-> Len(requests) + 1, acceleration |-> accelerationStream]

Throw(state, exception) == [state EXCEPT !.thrown = exception]

\* A value stored into a Buffer element
ToByte(n) == n % 256

\* The guard at the head of sendFrame
sendFrameRejects == ~isConnected

\* L8.prototype.sendFrame up to the call of serialport_.write
sendFrameOn(state, kind, buffer, expectedResponse, handleError, then) ==
    IF sendFrameRejects THEN Throw(state, "NotConnected")
    ELSE IF serialport_ = 0 THEN Throw(state, "TypeError")
    ELSE [state EXCEPT
             !.writeCalls = @ + 1,
             !.requests = Append(@,
                 [kind |-> kind,
                  buffer |-> buffer,
                  expectedResponse |-> expectedResponse,
                  handleError |-> handleError,
                  then |-> then,
                  port |-> serialport_,
                  stage |-> "write",
                  registration |-> 0,
                  settledOn |-> 0,
                  calls |-> 0,
                  outcome |-> "none",
                  call |-> state.call,
                  result |-> <<>>])]

\* Colours: r, g, b with Undefined for a missing channel
Color(r, g, b) == [r |-> r, g |-> g, b |-> b]

\* Every colour is taken as it is
InvalidColor_never(color) == FALSE

InvalidColor(color) ==
    \/ color.r = Undefined \/ color.r < 0 \/ color.r > 15
    \/ color.g = Undefined \/ color.g < 0 \/ color.g > 15
    \/ color.b = Undefined \/ color.b < 0 \/ color.b > 15

\* L8.prototype.encodeBGRSingleColor, after its range test
encodeBGRSingleColor(color) ==
    <<ToByte(color.b), ToByte(color.g), ToByte(color.r)>>

\* L8.prototype.encodeRGBSingleColor, after its range test
encodeRGBSingleColor(color) ==
    <<ToByte(color.r), ToByte(color.g), ToByte(color.b)>>

\* L8.prototype.encodeBGRMatrixColor, after its range test; for channels
\* in 0..15 the bitwise g << 4 | r is g * 16 + r
encodeBGRMatrixColor(color) ==
    <<ToByte(color.b), ToByte(color.g * 16 + color.r)>>

RECURSIVE encodeMatrix(_)
encodeMatrix(matrix) ==
    IF matrix = <<>> THEN <<>>
    ELSE encodeBGRMatrixColor(Head(matrix)) \o encodeMatrix(Tail(matrix))

InvalidMatrix(matrix) == \E i \in 1..Len(matrix) : InvalidColor(matrix[i])

\* L8.prototype.storeAnimationFrame
storeAnimationFrameOn(state, matrix, then) ==
    IF InvalidMatrix(matrix) THEN Throw(state, "RangeError")
    ELSE sendFrameOn(state, "storeAnimationFrame",
                     buildFrame(CMD_L8_STORE_FRAME, encodeMatrix(matrix)),
                     ExpectCommand(CMD_L8_STORE_FRAME_RESPONSE),
                     ExpectFrame(CMD_ERR, FromHexString(<<6, 10>>)),
                     then)

\* Math.round(duration / 100) of a non-negative integer
Round100(duration) == (duration + 50) \div 100

\* The parameters buffer of storeAnimation
storeAnimationParameters(frames, durations) ==
    <<ToByte(Len(frames))>> \o
    [i \in 1..(2 * Len(frames)) |->
        IF i % 2 = 1 THEN ToByte(frames[(i + 1) \div 2])
        ELSE ToByte(Round100(durations[i \div 2]))]

\* L8.prototype.storeAnimation
storeAnimationOn(state, frames, durations, then) ==
    IF Len(frames) # Len(durations) THEN Throw(state, "RangeError")
    ELSE sendFrameOn(state, "storeAnimation",
                     buildFrame(CMD_L8_STORE_ANIM,
                                storeAnimationParameters(frames, durations)),
                     ExpectCommand(CMD_L8_STORE_ANIM_RESPONSE), ExpectTrue,
                     then)

\* The orientation codes of setOrientation
OrientationCode ==
    [o \in {"up", "down", "left", "right"} |->
        CASE o = "up" -> 1 [] o = "down" -> 2 [] o = "left" -> 5
          [] o = "right" -> 6]

\* A series that takes the items from the end of the list
mapSeriesOn_lastFirst(state, rest, durations, indices) ==
    IF rest = <<>>
    THEN storeAnimationOn(state, indices, durations, FnThen)
    ELSE storeAnimationFrameOn(state, rest[Len(rest)],
             MapSeriesThen(SubSeq(rest, 1, Len(rest) - 1), durations,
                           indices))

\* async.mapSeries in prepareAnimation: the next matrix, or the final
\* callback that calls storeAnimation
mapSeriesOn(state, rest, durations, indices) ==
    IF rest = <<>>
    THEN storeAnimationOn(state, indices, durations, FnThen)
    ELSE storeAnimationFrameOn(state, Head(rest),
                               MapSeriesThen(Tail(rest), durations, indices))

\* AccelerationStream.prototype.poll_
poll_(state) ==
    sendFrameOn([state EXCEPT !.acceleration.polls = @ + 1],
                "getAcceleration", buildFrame(CMD_L8_ACC_QUERY, <<>>),
                ExpectCommand(CMD_L8_ACC_RESPONSE), ExpectTrue, StreamThen)

\* A stream that polls again as soon as a reading has arrived
AccelerationStream_onResponse_noCooldown(state, error) ==
    IF error THEN Throw(state, "Error")
    ELSE poll_([state EXCEPT !.acceleration.pushed = @ + 1,
                             !.acceleration.reading = FALSE])

\* AccelerationStream.prototype.onResponse_
AccelerationStream_onResponse_(state, error) ==
    LET flagged == [state EXCEPT !.acceleration.requested_ = FALSE,
                                 !.acceleration.cooldown_ = TRUE]
    IN  IF error THEN Throw(flagged, "Error")
        ELSE [flagged EXCEPT !.acceleration.timers = @ + 1,
                             !.acceleration.pushed = @ + 1,
                             !.acceleration.reading = FALSE]

\* A callback of setOrientation that sends nothing after an error
callback_stopsOnError(state, r, outcome, result) ==
    LET then == state.requests[r].then
        settled == [state EXCEPT
                       !.requests[r] = [settle(@, outcome) EXCEPT
                           !.result = IF state.requests[r].stage = "listening"
                                      THEN result.parameters ELSE <<>>],
                       !.call = state.requests[r].call]
    IN  CASE then.type = "orientation" /\ outcome = "ok" ->
                 IF then.orientation \notin DOMAIN OrientationCode
                 THEN Throw(settled, "RangeError")
                 ELSE sendFrameOn(settled, "setOrientationCode",
                          buildFrame(CMD_L8_SET_ORIENTATION,
                                     <<OrientationCode[then.orientation]>>),
                          ExpectFalse, ExpectTrue, FnThen)
          [] then.type = "mapSeries" /\ outcome = "ok" ->
                 mapSeriesOn(settled, then.rest, then.durations,
                             Append(then.indices, At(result.parameters, 0)))
          [] then.type = "stream" ->
                 AccelerationStream_onResponse_(settled, outcome # "ok")
          [] OTHER -> settled

\* fn(error, result) of request r and what that callback goes on to do
callback(state, r, outcome, result) ==
    LET then == state.requests[r].then
        settled == [state EXCEPT
                       !.requests[r] = [settle(@, outcome) EXCEPT
                           !.result = IF state.requests[r].stage = "listening"
                                      THEN result.parameters ELSE <<>>],
                       !.call = state.requests[r].call]
    IN  CASE then.type = "orientation" ->
                 IF then.orientation \notin DOMAIN OrientationCode
                 THEN Throw(settled, "RangeError")
                 ELSE sendFrameOn(settled, "setOrientationCode",
                          buildFrame(CMD_L8_SET_ORIENTATION,
                                     <<OrientationCode[then.orientation]>>),
                          ExpectFalse, ExpectTrue, FnThen)
          [] then.type = "mapSeries" ->
                 IF outcome # "ok" THEN settled
                 ELSE mapSeriesOn(settled, then.rest, then.durations,
                                  Append(then.indices,
                                         At(result.parameters, 0)))
          [] then.type = "stream" ->
                 AccelerationStream_onResponse_(settled, outcome # "ok")
          [] OTHER -> settled

\* An emit that stops at the first listener that takes the frame
RECURSIVE emitFrame_firstTakes(_, _, _)
emitFrame_firstTakes(state, frame, todo) ==
    IF todo = <<>> THEN state
    ELSE LET r == Head(todo)
             res == onReceive(frame, state.requests[r])
         IN  IF res = "skip" THEN emitFrame_firstTakes(state, frame, Tail(todo))
             ELSE callback([state EXCEPT
                               !.listeners = RemoveListener(@, r)],
                           r, IF res = "error" THEN "L8Error" ELSE "ok", frame)

\* this.emit("frameReceived", frame): every listener registered when the
\* emit starts is called, in registration order; an exception thrown by a
\* listener ends the emit
RECURSIVE emitFrame(_, _, _)
emitFrame(state, frame, todo) ==
    IF todo = <<>> \/ state.thrown # "none" THEN state
    ELSE LET r == Head(todo)
             res == onReceive(frame, state.requests[r])
         IN  IF res = "skip" THEN emitFrame(state, frame, Tail(todo))
             ELSE emitFrame(
                     callback([state EXCEPT
                                  !.listeners = RemoveListener(@, r)],
                              r, IF res = "error" THEN "L8Error" ELSE "ok",
                              frame),
                     frame, Tail(todo))

\* An emit that reaches every send that has not completed, registered or
\* not
RECURSIVE emitAll_toEverySend(_, _)
emitAll_toEverySend(state, frames) ==
    IF frames = <<>> \/ state.thrown # "none" THEN state
    ELSE emitAll_toEverySend(
             emitFrame([state EXCEPT !.emitted = Append(@, Head(frames))],
                       Head(frames),
                       SelectSeq([i \in 1..Len(state.requests) |-> i],
                                 LAMBDA r : state.requests[r].stage # "done")),
             Tail(frames))

\* responses.forEach(emit)
RECURSIVE emitAll(_, _)
emitAll(state, frames) ==
    IF frames = <<>> \/ state.thrown # "none" THEN state
    ELSE emitAll(emitFrame([state EXCEPT !.emitted = Append(@, Head(frames))],
                           Head(frames), state.listeners),
                 Tail(frames))

\* An onResponse_ that emits the frames decoded before a decode error
onResponse_emitsDecoded(data) ==
    LET parsed == onResponseParse(receiveBuffer_, data)
        after == emitAll(Running, parsed.frames)
    IN  [receiveBuffer |-> parsed.receiveBuffer,
         error |-> IF parsed.error = "none" THEN after.thrown ELSE parsed.error,
         frames |-> after.emitted,
         requests |-> after.requests,
         listeners |-> after.listeners,
         writeCalls |-> after.writeCalls,
         acceleration |-> after.acceleration]

\* L8.prototype.onResponse_ as a whole: the next values of the receive
\* buffer, the requests and the listeners for an incoming chunk
onResponse_(data) ==
    LET parsed == onResponseParse(receiveBuffer_, data)
        after == IF parsed.error = "none" THEN emitAll(Running, parsed.frames)
                 ELSE Running
    IN  [receiveBuffer |-> parsed.receiveBuffer,
         error |-> IF parsed.error = "none" THEN after.thrown ELSE parsed.error,
         frames |-> after.emitted,
         requests |-> after.requests,
         listeners |-> after.listeners,
         writeCalls |-> after.writeCalls,
         acceleration |-> after.acceleration]

\* ------------------------------------------------------------------------
\* Calls without a callback
\* ------------------------------------------------------------------------

\* The promise that the function made by wrapInPromise returns.  Its
\* executor appends the generated callback to the arguments and applies the
\* original function; an exception of that call leaves the executor and
\* rejects the promise.  method and ref name the call and the port or the
\* send it is about; handed says that the original function passed the
\* generated callback on to somebody who is going to call it.
wrapInPromise(method, ref, thrown, handed) ==
    [method |-> method, ref |-> ref,
     state |-> IF thrown # "none" THEN "rejected" ELSE "pending",
     handed |-> handed /\ thrown = "none"]

\* The promises after a call: with a callback none is made
returned(promised, promise) ==
    IF promised THEN Append(promises, promise) ELSE promises

\* The generated callback: reject(error) or resolve(value).  A settled
\* promise stays as it is.
generatedCallback(promise, error) ==
    IF promise.state # "pending" THEN promise
    ELSE [promise EXCEPT !.state = IF error THEN "rejected" ELSE "fulfilled"]

\* The promises after the callback of open or close on port p has run
callbackCalled(method, p, error) ==
    [k \in 1..Len(promises) |->
        IF /\ promises[k].method = method
           /\ promises[k].ref = p
           /\ promises[k].handed
        THEN generatedCallback(promises[k], error)
        ELSE promises[k]]

\* The promises after a step that left the sends as after: the completion
\* of a send made without a callback is the generated callback
completed(after) ==
    [k \in 1..Len(promises) |->
        IF /\ promises[k].method = "send"
           /\ promises[k].handed
           /\ after[promises[k].ref].calls > 0
        THEN generatedCallback(promises[k],
                               after[promises[k].ref].outcome # "ok")
        ELSE promises[k]]

\* ------------------------------------------------------------------------
\* Connection handling
\* ------------------------------------------------------------------------

\* L8.prototype.open: a new SerialPort replaces the handle, the receive
\* buffer is reset, the port starts opening.  The port the handle named
\* before is left as it is.  limit bounds the calls per session;
\* promised says that the call was made without the callback.
openCall(limit, promised) ==
    /\ crashed = "none"
    /\ Len(ports) < limit
    /\ promised => Len(promises) < MaxPromises
    /\ promises' = returned(promised,
                            wrapInPromise("open", Len(ports) + 1, "none", TRUE))
    /\ receiveBuffer_' = [buffer |-> <<>>, length |-> 0]
    /\ ports' = Append(ports, [state |-> "opening", openResult |-> "none"])
    /\ serialport_' = Len(ports) + 1
    /\ lastThrow' = "none"
    /\ emitted' = <<>>
    /\ UNCHANGED <<isConnected, listeners, requests, crashed,
                   frameSent, writeCalls>>
    /\ UNCHANGED accelerationStream
    /\ UNCHANGED harnessVars
    /\ UNCHANGED gridVars

open == openCall(MaxOpens, FALSE)

\* open() on a session that may be opening, connected or closed already
reopen == openCall(MaxReopens, FALSE)

\* open(port, baudrate) without the callback
openPromised == openCall(MaxOpens, TRUE)

\* The flag the callback of serialport_.open sets
openCallbackFlag(error) == TRUE

\* The callback given to serialport_.open
openCallback(p, error) ==
    /\ crashed = "none"
    /\ p \in 1..Len(ports)
    /\ ports[p].state = "opening"
    /\ isConnected' = openCallbackFlag(error)
    /\ ports' = [ports EXCEPT ![p] =
                    [state |-> IF error THEN "failed" ELSE "open",
                     openResult |-> IF error THEN "error" ELSE "ok"]]
    /\ emitted' = <<>>
    /\ lastThrow' = "none"
    /\ UNCHANGED <<serialport_, receiveBuffer_, listeners, requests, crashed,
                   frameSent, writeCalls>>
    /\ UNCHANGED accelerationStream
    /\ promises' = callbackCalled("open", p, error)
    /\ UNCHANGED harnessVars
    /\ UNCHANGED gridVars

\* L8.prototype.close.  A port that is not open answers close() with an
\* error at once; a port that is already closing ignores the call and drops
\* its callback.  promised says that the call was made without the callback.
closeCall(promised) ==
    /\ crashed = "none"
    /\ promised => Len(promises) < MaxPromises
    /\ IF ~isConnected
       THEN /\ lastThrow' = "none"
            /\ promises' = returned(promised,
                                    wrapInPromise("close", 0, "none", FALSE))
            /\ UNCHANGED <<isConnected, serialport_, ports>>
       ELSE IF serialport_ = 0
       THEN /\ lastThrow' = IF promised THEN "none" ELSE "TypeError"
            /\ promises' = returned(promised,
                                    wrapInPromise("close", 0, "TypeError", FALSE))
            /\ UNCHANGED <<isConnected, serialport_, ports>>
       ELSE IF ports[serialport_].state = "open"
       THEN /\ ports' = [ports EXCEPT ![serialport_].state = "closing"]
            /\ lastThrow' = "none"
            /\ promises' = returned(promised,
                                    wrapInPromise("close", serialport_, "none", TRUE))
            /\ UNCHANGED <<isConnected, serialport_>>
       ELSE IF ports[serialport_].state = "closing"
       THEN /\ lastThrow' = "none"
            /\ promises' = returned(promised,
                                    wrapInPromise("close", serialport_, "none", FALSE))
            /\ UNCHANGED <<isConnected, serialport_, ports>>
       ELSE /\ isConnected' = FALSE
            /\ serialport_' = 0
            /\ lastThrow' = "none"
            /\ promises' = returned(promised,
                                    generatedCallback(
                                        wrapInPromise("close", serialport_, "none", TRUE),
                                        TRUE))
            /\ UNCHANGED ports
    /\ emitted' = <<>>
    /\ UNCHANGED <<receiveBuffer_, listeners, requests, crashed,
                   frameSent, writeCalls>>
    /\ UNCHANGED accelerationStream
    /\ UNCHANGED harnessVars
    /\ UNCHANGED gridVars

close == closeCall(FALSE)

\* close() without the callback
closePromised == closeCall(TRUE)

\* The close callback drops the listeners of the sends that still wait
closeCallback_dropsListeners(p) ==
    /\ crashed = "none"
    /\ p \in 1..Len(ports)
    /\ ports[p].state = "closing"
    /\ ports' = [ports EXCEPT ![p].state = "closed"]
    /\ isConnected' = FALSE
    /\ serialport_' = 0
    /\ listeners' = <<>>
    /\ emitted' = <<>>
    /\ lastThrow' = "none"
    /\ UNCHANGED <<receiveBuffer_, requests, crashed, frameSent, writeCalls>>
    /\ UNCHANGED accelerationStream
    /\ UNCHANGED promises
    /\ UNCHANGED harnessVars
    /\ UNCHANGED gridVars

\* The callback given to serialport_.close
closeCallback(p) ==
    /\ crashed = "none"
    /\ p \in 1..Len(ports)
    /\ ports[p].state = "closing"
    /\ ports' = [ports EXCEPT ![p].state = "closed"]
    /\ isConnected' = FALSE
    /\ serialport_' = 0
    /\ emitted' = <<>>
    /\ lastThrow' = "none"
    /\ UNCHANGED <<receiveBuffer_, listeners, requests, crashed,
                   frameSent, writeCalls>>
    /\ UNCHANGED accelerationStream
    /\ promises' = callbackCalled("close", p, FALSE)
    /\ UNCHANGED harnessVars
    /\ UNCHANGED gridVars

\* ------------------------------------------------------------------------
\* Sending
\* ------------------------------------------------------------------------

\* The sendFrame calls of the command methods: buffer, expectedResponse,
\* handleError
SendKinds == {"ping", "getAcceleration", "setScrollingText",
              "setOrientationAuto", "storeAnimationFrame"}

sendBuffer(kind) ==
    CASE kind = "ping" -> buildFrame(CMD_PING, <<>>)
      [] kind = "getAcceleration" -> buildFrame(CMD_L8_ACC_QUERY, <<>>)
      [] kind = "setScrollingText" ->
             buildFrame(CMD_L8_SET_TEXT, <<1, 0, 15, 0, 0, 72, 105>>)
      [] kind = "setOrientationAuto" -> buildFrame(CMD_L8_SET_AUTOROTATE, <<1>>)
      [] kind = "storeAnimationFrame" ->
             buildFrame(CMD_L8_STORE_FRAME, [i \in 1..128 |-> 0])

sendExpectedResponse(kind) ==
    CASE kind = "ping" -> ExpectTrue
      [] kind = "getAcceleration" -> ExpectCommand(CMD_L8_ACC_RESPONSE)
      [] kind = "setScrollingText" -> ExpectFalse
      [] kind = "setOrientationAuto" -> ExpectFrame(CMD_OK, FromHexString(<<6, 10>>))
      [] kind = "storeAnimationFrame" -> ExpectCommand(CMD_L8_STORE_FRAME_RESPONSE)

sendHandleError(kind) ==
    CASE kind = "storeAnimationFrame" -> ExpectFrame(CMD_ERR, FromHexString(<<6, 10>>))
      [] OTHER -> ExpectTrue

\* A call of the API by the user: the exception of the call chain reaches
\* the caller
apiCallAs(res, promised) ==
    /\ crashed = "none"
    /\ promised => Len(promises) < MaxPromises
    /\ lastThrow' = IF promised THEN "none" ELSE res.thrown
    /\ promises' = returned(promised,
                            wrapInPromise("send", Len(requests) + 1,
                                          res.thrown, TRUE))
    /\ requests' = res.requests
    /\ writeCalls' = res.writeCalls
    /\ accelerationStream' = res.acceleration
    /\ emitted' = <<>>
    /\ UNCHANGED <<isConnected, serialport_, receiveBuffer_, listeners, ports,
                   crashed, frameSent>>
    /\ UNCHANGED harnessVars
    /\ UNCHANGED gridVars

apiCall(res) == apiCallAs(res, FALSE)

\* L8.prototype.sendFrame, called by a command method
sendFrame(kind) ==
    /\ Len(requests) < MaxSends
    /\ apiCall(sendFrameOn(Running, kind, sendBuffer(kind),
                           sendExpectedResponse(kind), sendHandleError(kind),
                           FnThen))

\* ping() without the callback: the generated callback is the fn that ping
\* hands to sendFrame
pingPromised ==
    /\ Len(requests) < MaxSends
    /\ apiCallAs(sendFrameOn(Running, "ping", sendBuffer("ping"),
                             sendExpectedResponse("ping"),
                             sendHandleError("ping"), FnThen),
                 TRUE)

\* The callback given to serialport_.write.  A port that is not open fails
\* the write; an open port reports success or an error of its own.
writeCallback(r, error) ==
    /\ crashed = "none"
    /\ r \in 1..Len(requests)
    /\ requests[r].stage = "write"
    /\ ports[requests[r].port].state # "open" => error
    /\ IF error
       THEN LET res == callback(Running, r, "transportError", Undefined)
            IN  /\ requests' = res.requests
                /\ writeCalls' = res.writeCalls
                /\ crashed' = res.thrown
                /\ accelerationStream' = res.acceleration
       ELSE IF serialport_ = 0
       THEN /\ crashed' = "TypeError"
            /\ UNCHANGED <<requests, writeCalls, accelerationStream>>
       ELSE /\ requests' = [requests EXCEPT ![r].stage = "drain",
                                            ![r].port = serialport_]
            /\ UNCHANGED <<crashed, writeCalls, accelerationStream>>
    /\ emitted' = <<>>
    /\ lastThrow' = "none"
    /\ UNCHANGED <<isConnected, serialport_, receiveBuffer_, listeners, ports,
                   frameSent>>
    /\ promises' = completed(requests')
    /\ UNCHANGED harnessVars
    /\ UNCHANGED gridVars

\* Every send waits for a response
awaitsResponse_always(expectedResponse) == TRUE

\* if (expectedResponse === false) { fn(...); return; }
awaitsResponse(expectedResponse) == expectedResponse.kind # "false"

\* Number of this.on("frameReceived", onReceive) calls so far
Registrations == Cardinality({r \in 1..Len(requests) : requests[r].registration > 0})

\* The callback given to serialport_.drain
drainCallback(r, error) ==
    /\ crashed = "none"
    /\ r \in 1..Len(requests)
    /\ requests[r].stage = "drain"
    /\ ports[requests[r].port].state # "open" => error
    /\ IF error
       THEN LET res == callback(Running, r, "transportError", Undefined)
            IN  /\ requests' = res.requests
                /\ writeCalls' = res.writeCalls
                /\ crashed' = res.thrown
                /\ accelerationStream' = res.acceleration
                /\ UNCHANGED <<frameSent, listeners>>
       ELSE /\ frameSent' = frameSent + 1
            /\ IF ~awaitsResponse(requests[r].expectedResponse)
               THEN LET res == callback(Running, r, "ok", Undefined)
                    IN  /\ requests' = res.requests
                        /\ writeCalls' = res.writeCalls
                        /\ crashed' = res.thrown
                        /\ accelerationStream' = res.acceleration
                        /\ UNCHANGED listeners
               ELSE /\ requests' = [requests EXCEPT
                                       ![r].stage = "listening",
                                       ![r].registration = Registrations + 1]
                    /\ listeners' = Append(listeners, r)
                    /\ UNCHANGED <<crashed, writeCalls, accelerationStream>>
    /\ emitted' = <<>>
    /\ lastThrow' = "none"
    /\ UNCHANGED <<isConnected, serialport_, receiveBuffer_, ports>>
    /\ promises' = completed(requests')
    /\ UNCHANGED harnessVars
    /\ UNCHANGED gridVars

\* ------------------------------------------------------------------------
\* Command methods
\* ------------------------------------------------------------------------

\* A command method called by the user.  A call that throws before it
\* reaches the transport is always possible; one that sends needs room.
commandCall(res) ==
    /\ Len(res.requests) = Len(requests) \/ Len(requests) < MaxCalls
    /\ apiCall(res)

\* L8.prototype.setLED.  Buffer.concat is given a total length of 2 + 4 for
\* five bytes: pad is what the sixth byte of the new buffer holds.
setLED(x, y, color, pad) ==
    commandCall(
        IF x < 0 \/ x > 7 \/ y < 0 \/ y > 7 THEN Throw(Running, "RangeError")
        ELSE IF InvalidColor(color) THEN Throw(Running, "RangeError")
        ELSE sendFrameOn(Running, "setLED",
                 buildFrame(CMD_L8_LED_SET,
                            <<ToByte(y), ToByte(x)>>
                                \o encodeBGRSingleColor(color) \o <<pad>>),
                 ExpectTrue, ExpectTrue, FnThen))

\* L8.prototype.setMatrix
setMatrix(matrix) ==
    commandCall(
        IF Len(matrix) # 64 THEN Throw(Running, "RangeError")
        ELSE IF InvalidMatrix(matrix) THEN Throw(Running, "RangeError")
        ELSE sendFrameOn(Running, "setMatrix",
                 buildFrame(CMD_L8_MATRIX_SET, encodeMatrix(matrix)),
                 ExpectTrue, ExpectTrue, FnThen))

\* The speed codes of setScrollingText
SpeedCode ==
    [v \in {"slow", "medium", "fast"} |->
        CASE v = "slow" -> 3 [] v = "medium" -> 2 [] v = "fast" -> 0]

\* L8.prototype.setScrollingText; text is the ASCII bytes of the string
setScrollingText(text, color, speed, loop) ==
    commandCall(
        IF speed \notin DOMAIN SpeedCode THEN Throw(Running, "RangeError")
        ELSE IF InvalidColor(color) THEN Throw(Running, "RangeError")
        ELSE sendFrameOn(Running, "setScrollingText",
                 buildFrame(CMD_L8_SET_TEXT,
                            <<IF loop THEN 1 ELSE 0, SpeedCode[speed]>>
                                \o encodeRGBSingleColor(color) \o text),
                 ExpectFalse, ExpectTrue, FnThen))

\* L8.prototype.setOrientation
setOrientation(orientation) ==
    commandCall(
        IF orientation = "auto"
        THEN sendFrameOn(Running, "setOrientationAuto",
                 buildFrame(CMD_L8_SET_AUTOROTATE, <<1>>),
                 ExpectFrame(CMD_OK, FromHexString(<<6, 10>>)), ExpectTrue,
                 FnThen)
        ELSE sendFrameOn(Running, "setOrientationManual",
                 buildFrame(CMD_L8_SET_AUTOROTATE, <<0>>),
                 ExpectFrame(CMD_OK, FromHexString(<<6, 10>>)), ExpectTrue,
                 OrientationThen(orientation)))

\* L8.prototype.storeAnimation
storeAnimation(frames, durations) ==
    commandCall(storeAnimationOn(Running, frames, durations, FnThen))

\* L8.prototype.prepareAnimation
prepareAnimation(matrices, durations) ==
    commandCall(
        IF Len(matrices) # Len(durations) THEN Throw(Running, "RangeError")
        ELSE mapSeriesOn(Running, matrices, durations, <<>>))

\* A consumer starts or stops reading the acceleration stream
attach ==
    /\ crashed = "none"
    /\ ~accelerationStream.attached
    /\ accelerationStream' = [accelerationStream EXCEPT !.attached = TRUE]
    /\ emitted' = <<>>
    /\ lastThrow' = "none"
    /\ UNCHANGED <<isConnected, serialport_, receiveBuffer_, listeners,
                   requests, ports, crashed, frameSent, writeCalls>>
    /\ UNCHANGED promises
    /\ UNCHANGED harnessVars
    /\ UNCHANGED gridVars

detach ==
    /\ crashed = "none"
    /\ accelerationStream.attached
    /\ accelerationStream' = [accelerationStream EXCEPT !.attached = FALSE]
    /\ emitted' = <<>>
    /\ lastThrow' = "none"
    /\ UNCHANGED <<isConnected, serialport_, receiveBuffer_, listeners,
                   requests, ports, crashed, frameSent, writeCalls>>
    /\ UNCHANGED promises
    /\ UNCHANGED harnessVars
    /\ UNCHANGED gridVars

\* AccelerationStream.prototype._read, called by the Readable for a
\* consumer that is reading while no _read is outstanding
AccelerationStream_read ==
    /\ accelerationStream.attached
    /\ ~accelerationStream.reading
    /\ accelerationStream.cooldown_ \/ accelerationStream.polls < MaxPolls
    /\ LET called == [Running EXCEPT !.acceleration.reading = TRUE]
       IN  apiCall(IF accelerationStream.cooldown_
                   THEN [called EXCEPT !.acceleration.requested_ = TRUE]
                   ELSE poll_(called))

\* A timer callback that polls whether or not data was requested
cooldownExpired_alwaysPolls(state) ==
    poll_([state EXCEPT !.acceleration.cooldown_ = FALSE])

\* The function given to setTimeout in onResponse_
cooldownExpired(state) ==
    LET cooled == [state EXCEPT !.acceleration.cooldown_ = FALSE]
    IN  IF cooled.acceleration.requested_ THEN poll_(cooled) ELSE cooled

\* A pending timer of the stream fires.  An exception of poll_ escapes the
\* timer callback and ends the process.
cooldownTimeout ==
    /\ crashed = "none"
    /\ accelerationStream.timers > 0
    /\ accelerationStream.polls < MaxPolls
    /\ LET res == cooldownExpired([Running EXCEPT
                                      !.acceleration.timers = @ - 1])
       IN  /\ accelerationStream' = res.acceleration
           /\ requests' = res.requests
           /\ writeCalls' = res.writeCalls
           /\ crashed' = res.thrown
    /\ emitted' = <<>>
    /\ lastThrow' = "none"
    /\ UNCHANGED <<isConnected, serialport_, receiveBuffer_, listeners, ports,
                   frameSent>>
    /\ UNCHANGED promises
    /\ UNCHANGED harnessVars
    /\ UNCHANGED gridVars

\* The host catches the exception that escaped an event callback (an
\* uncaughtException handler) and the process goes on
uncaughtException ==
    /\ crashed # "none"
    /\ crashed' = "none"
    /\ emitted' = <<>>
    /\ lastThrow' = "none"
    /\ UNCHANGED <<isConnected, serialport_, receiveBuffer_, listeners,
                   requests, ports, frameSent, writeCalls>>
    /\ UNCHANGED accelerationStream
    /\ UNCHANGED promises
    /\ UNCHANGED harnessVars
    /\ UNCHANGED gridVars

\* The arguments the command methods are called with in the model
GoodColor == Color(1, 2, 3)
BadColors == {Color(16, 0, 0), Color(0, Undefined, 0)}
GoodMatrix == [i \in 1..64 |-> GoodColor]
BadMatrix == [GoodMatrix EXCEPT ![64] = Color(0, 0, 16)]
ShortMatrix == [i \in 1..63 |-> GoodColor]
LedXs == {-1, 7, 8}
LedYs == {0, 8}
LedPads == {0, 255}
Colors == {GoodColor} \cup BadColors
Matrices == {GoodMatrix, BadMatrix, ShortMatrix}
Speeds == {"fast", "slow", "warp"}
Orientations == {"auto", "up", "right", "diagonal"}
DurationValues == {0, 49, 50, 149, 25549, 25600}
DurationLists ==
    {<<>>, <<50, 149>>} \cup {<<d>> : d \in DurationValues}
FrameLists == {<<>>, <<3>>, <<3, 4>>}
PrepareDurations == {<<>>, <<100>>, <<100, 200>>}
MatrixLists == {<<>>, <<GoodMatrix>>, <<BadMatrix>>, <<GoodMatrix, BadMatrix>>,
                <<GoodMatrix, GoodMatrix>>}

\* What the device answers to these commands
CommandChunks ==
    {buildFrame(CMD_OK, FromHexString(<<6, 10>>)),
     buildFrame(CMD_ERR, FromHexString(<<6, 10>>)),
     buildFrame(CMD_ERR, <<CMD_L8_SET_AUTOROTATE>>),
     buildFrame(CMD_OK, <<CMD_L8_LED_SET>>),
     buildFrame(CMD_L8_STORE_FRAME_RESPONSE, <<5>>),
     buildFrame(CMD_L8_STORE_ANIM_RESPONSE, <<0>>)}

\* ------------------------------------------------------------------------
\* Receiving
\* ------------------------------------------------------------------------

\* What the device sends in the model: its answers to the commands above,
\* whole, glued together, cut in two, and damaged
DeviceFrames ==
    {buildFrame(CMD_OK, <<CMD_PING>>),
     buildFrame(CMD_ERR, <<CMD_PING>>),
     buildFrame(CMD_L8_ACC_RESPONSE, <<10, 20, 30, 2, 1, 1, 1>>),
     buildFrame(CMD_OK, <<106>>),
     buildFrame(CMD_ERR, <<106>>),
     buildFrame(CMD_L8_STORE_FRAME_RESPONSE, <<0>>)}

DeviceChunks ==
    DeviceFrames
    \cup {buildFrame(CMD_OK, <<CMD_PING>>) \o buildFrame(CMD_OK, <<CMD_PING>>)}
    \cup {SubSeq(buildFrame(CMD_OK, <<CMD_PING>>), 1, 3),
          SubSeq(buildFrame(CMD_OK, <<CMD_PING>>), 4, 6)}
    \cup {<<170, 85, 1, CMD_OK, 255>>}

\* The requests after a "data" event of port p.  settledOn is a history
\* field the code does not keep: the port whose "data" event invoked the
\* completion, 0 while none has.
completedOn(p, after) ==
    [r \in 1..Len(after) |->
        IF r <= Len(requests) /\ requests[r].calls = 0 /\ after[r].calls > 0
        THEN [after[r] EXCEPT !.settledOn = p]
        ELSE after[r]]

\* The "data" event of a port: onResponse_ runs to completion.  An
\* exception of parseFrames_ escapes the event callback and ends the process.
receive(p, data) ==
    /\ crashed = "none"
    /\ p \in 1..Len(ports)
    /\ ports[p].state = "open"
    /\ LET res == onResponse_(data)
       IN  /\ receiveBuffer_' = res.receiveBuffer
           /\ crashed' = res.error
           /\ emitted' = res.frames
           /\ requests' = completedOn(p, res.requests)
           /\ listeners' = res.listeners
           /\ writeCalls' = res.writeCalls
           /\ accelerationStream' = res.acceleration
    /\ lastThrow' = "none"
    /\ UNCHANGED <<isConnected, serialport_, ports, frameSent>>
    /\ promises' = completed(requests')
    /\ UNCHANGED harnessVars
    /\ UNCHANGED gridVars

\* ------------------------------------------------------------------------
\* Decode harness: frames are encoded with buildFrame, the bytes are cut
\* into chunks and handed to onResponse_, an observer of "frameReceived"
\* logs what is emitted
\* ------------------------------------------------------------------------
HarnessCommands == {CMD_OK, 170}
HarnessBytes == {85}

SeqsUpTo(S, n) == UNION {[1..k -> S] : k \in 0..n}

ShortParameters == SeqsUpTo(HarnessBytes, MaxParams)

HarnessFrames == [command : HarnessCommands, parameters : ShortParameters]

\* Parameter buffers near the upper end of the protocol's range
LongParameters ==
    {[i \in 1..n |-> (i * 7) % 256] : n \in {MaxLength - 1, MaxLength}}

RECURSIVE encodeAll(_)
encodeAll(frames) ==
    IF frames = <<>> THEN <<>>
    ELSE buildFrame(Head(frames).command, Head(frames).parameters)
             \o encodeAll(Tail(frames))

\* Encode a sequence of frames into one byte stream
build(frames) ==
    /\ phase = "idle"
    /\ original' = frames
    /\ stream' = encodeAll(frames)
    /\ phase' = "feeding"
    /\ UNCHANGED <<receiveBuffer_, crashed, emitted, received, bytewise>>
    /\ UNCHANGED sessionVars
    /\ UNCHANGED gridVars

\* Deliver the next k bytes of the stream as one chunk
feed(k) ==
    /\ phase \in {"feeding", "raw"}
    /\ crashed = "none"
    /\ k \in 1..Len(stream)
    /\ LET res == onResponse_(SubSeq(stream, 1, k))
       IN  /\ receiveBuffer_' = res.receiveBuffer
           /\ crashed' = res.error
           /\ emitted' = res.frames
           /\ requests' = res.requests
           /\ listeners' = res.listeners
           /\ writeCalls' = res.writeCalls
           /\ accelerationStream' = res.acceleration
           /\ received' = received \o res.frames
    /\ stream' = SubSeq(stream, k + 1, Len(stream))
    /\ bytewise' = (bytewise /\ k = 1)
    /\ UNCHANGED <<original, phase>>
    /\ UNCHANGED gridVars
    /\ UNCHANGED <<isConnected, serialport_, ports, frameSent, lastThrow>>
    /\ UNCHANGED promises

\* What a transport can deliver besides well-formed frames: a frame with
\* length byte 0, a frame with a wrong trailing byte, and stray bytes
RawPieces ==
    {buildFrame(CMD_OK, <<>>),
     buildFrame(170, <<85>>),
     <<170, 85, 0, 0>>,
     <<170, 85, 1, CMD_OK, 255>>,
     <<85, 170, 1, CMD_OK>>,
     <<170>>}

RECURSIVE concatAll(_)
concatAll(pieces) ==
    IF pieces = <<>> THEN <<>> ELSE Head(pieces) \o concatAll(Tail(pieces))

\* Take a raw byte stream for delivery
buildRaw(pieces) ==
    /\ phase = "idle"
    /\ original' = <<>>
    /\ stream' = concatAll(pieces)
    /\ phase' = "raw"
    /\ UNCHANGED <<receiveBuffer_, crashed, emitted, received, bytewise>>
    /\ UNCHANGED sessionVars
    /\ UNCHANGED gridVars

\* ------------------------------------------------------------------------
\* Grids: GridDescription and L8Grid.  The L8s of the segments are numbered
\* in the order they are added; what the grid does with them is recorded
\* in deviceCalls, and each call completes later with success or an error.
\* ------------------------------------------------------------------------
Segment(l8, x, y) == [position |-> [x |-> x, y |-> y], l8 |-> l8]

\* GridDescription.prototype.addToGrid_
addToGrid_(grid, l8, x, y) == Append(grid, Segment(l8, x, y))

\* GridDescription.prototype.moveGrid_
moveGrid_(grid, x, y) ==
    [i \in 1..Len(grid) |->
        [grid[i] EXCEPT !.position.x = @ + x, !.position.y = @ + y]]

\* GridDescription.prototype.left, right, top, bottom
left(grid, l8) == addToGrid_(moveGrid_(grid, 8, 0), l8, 0, 0)
right(grid, l8) == addToGrid_(moveGrid_(grid, -8, 0), l8, 0, 0)
top(grid, l8) == addToGrid_(moveGrid_(grid, 0, 8), l8, 0, 0)
bottom(grid, l8) == addToGrid_(moveGrid_(grid, 0, -8), l8, 0, 0)

Directions == {"left", "right", "top", "bottom"}

\* The loop of normalize_ from segment i on
RECURSIVE topLeftSegment(_, _, _)
topLeftSegment(grid, i, topLeft) ==
    IF i > Len(grid) THEN topLeft
    ELSE topLeftSegment(grid, i + 1,
             IF \/ grid[i].position.x < topLeft.position.x
                \/ grid[i].position.y < topLeft.position.y
             THEN grid[i] ELSE topLeft)

\* GridDescription.prototype.normalize_
normalize_(grid) ==
    LET topLeft == topLeftSegment(grid, 1, grid[1])
    IN  moveGrid_(grid, topLeft.position.x * (-1), topLeft.position.y * (-1))

\* The segment's 8x8 box contains (x, y)
Covers(segment, x, y) ==
    /\ x >= segment.position.x /\ x <= segment.position.x + 7
    /\ y >= segment.position.y /\ y <= segment.position.y + 7

Max(S) == CHOOSE m \in S : \A n \in S : n <= m

\* A mapping that hands on the grid coordinates as they are
mapCoordinates_unmapped(grid, x, y) ==
    LET matching == {i \in 1..Len(grid) : Covers(grid[i], x, y)}
    IN  IF matching = {}
        THEN [thrown |-> "RangeError", gridIndex |-> 0, l8 |-> 0,
              x |-> 0, y |-> 0]
        ELSE [thrown |-> "none", gridIndex |-> Max(matching),
              l8 |-> grid[Max(matching)].l8, x |-> x, y |-> y]

\* L8Grid.prototype.mapCoordinates_: the last segment of the grid whose box
\* contains (x, y); gridIndex counts from 1
mapCoordinates_(grid, x, y) ==
    LET matching == {i \in 1..Len(grid) : Covers(grid[i], x, y)}
    IN  IF matching = {}
        THEN [thrown |-> "RangeError", gridIndex |-> 0, l8 |-> 0,
              x |-> 0, y |-> 0]
        ELSE LET segment == grid[Max(matching)]
             IN  [thrown |-> "none", gridIndex |-> Max(matching),
                  l8 |-> segment.l8,
                  x |-> x - segment.position.x,
                  y |-> y - segment.position.y]

\* The column count mapMatrix_ hands to MatrixBuilder.forEach
MatrixColumns == 32

\* MatrixBuilder.createArrayWithSize(8*8) for every segment
emptyMappings(grid) ==
    [s \in 1..Len(grid) |->
        [matrix |-> [k \in 1..64 |-> Undefined], l8 |-> grid[s].l8]]

\* MatrixBuilder.forEach(matrix, ..., 32) in mapMatrix_ over the indices
\* lo..hi, counted from 0 (the loop, split in halves to keep the evaluation
\* shallow): the first pixel outside every segment ends the loop
RECURSIVE mapMatrixRange(_, _, _, _, _)
mapMatrixRange(grid, matrix, lo, hi, mappings) ==
    IF lo > hi THEN [thrown |-> "none", mappings |-> mappings]
    ELSE IF lo = hi
    THEN LET pixelMapping == mapCoordinates_(grid, lo % MatrixColumns,
                                             lo \div MatrixColumns)
         IN  IF pixelMapping.thrown # "none"
             THEN [thrown |-> pixelMapping.thrown, mappings |-> <<>>]
             ELSE [thrown |-> "none",
                   mappings |-> [mappings EXCEPT
                       ![pixelMapping.gridIndex].matrix[
                           pixelMapping.x + (pixelMapping.y * 8) + 1]
                               = matrix[lo + 1]]]
    ELSE LET mid == (lo + hi) \div 2
             first == mapMatrixRange(grid, matrix, lo, mid, mappings)
         IN  IF first.thrown # "none" THEN first
             ELSE mapMatrixRange(grid, matrix, mid + 1, hi, first.mappings)

\* L8Grid.prototype.mapMatrix_
mapMatrix_(grid, matrix) ==
    mapMatrixRange(grid, matrix, 0, Len(matrix) - 1, emptyMappings(grid))

\* A call of an L8Grid method by the user: its record, the calls it makes
\* on the L8s, and the exception it throws
gridCall(name, kind, made, thrown) ==
    /\ built
    /\ Len(gridCalls) < MaxGridCalls
    /\ gridThrow' = thrown
    /\ gridCalls' = Append(gridCalls,
           [name |-> name, kind |-> kind, fnCalls |-> <<>>,
            join |-> IF kind = "callback" THEN "pending" ELSE "none",
            rejectedBy |-> 0, notified |-> FALSE])
    /\ deviceCalls' = deviceCalls \o
           [d \in 1..Len(made) |->
               [call |-> Len(gridCalls) + 1, l8 |-> made[d].l8, name |-> name,
                x |-> made[d].x, y |-> made[d].y, matrix |-> made[d].matrix,
                state |-> "pending"]]
    /\ UNCHANGED <<grid_, built>>
    /\ UNCHANGED sessionVars
    /\ UNCHANGED <<receiveBuffer_, crashed, emitted>>
    /\ UNCHANGED harnessVars

\* GridDescription: left, right, top or bottom with the next L8
compose(direction) ==
    /\ ~built
    /\ Len(grid_) < MaxSegments
    /\ grid_' = CASE direction = "left" -> left(grid_, Len(grid_) + 1)
                  [] direction = "right" -> right(grid_, Len(grid_) + 1)
                  [] direction = "top" -> top(grid_, Len(grid_) + 1)
                  [] direction = "bottom" -> bottom(grid_, Len(grid_) + 1)
    /\ gridThrow' = "none"
    /\ UNCHANGED <<built, gridCalls, deviceCalls>>
    /\ UNCHANGED sessionVars
    /\ UNCHANGED <<receiveBuffer_, crashed, emitted>>
    /\ UNCHANGED harnessVars

\* new L8Grid(description): GridDescription.prototype.toGrid
toGrid ==
    /\ ~built
    /\ grid_' = normalize_(grid_)
    /\ built' = TRUE
    /\ gridThrow' = "none"
    /\ UNCHANGED <<gridCalls, deviceCalls>>
    /\ UNCHANGED sessionVars
    /\ UNCHANGED <<receiveBuffer_, crashed, emitted>>
    /\ UNCHANGED harnessVars

\* The method L8Grid gets for an L8 method with arguments x, y, ..., fn
gridSetLED(x, y) ==
    LET mapping == mapCoordinates_(grid_, x, y)
    IN  gridCall("setLED", "coordinate",
                 IF mapping.thrown # "none" THEN <<>>
                 ELSE <<[l8 |-> mapping.l8, x |-> mapping.x, y |-> mapping.y,
                         matrix |-> <<>>]>>,
                 mapping.thrown)

\* The method L8Grid gets for an L8 method with arguments matrix, ..., fn
gridSetMatrix(matrix) ==
    LET mapped == mapMatrix_(grid_, matrix)
    IN  gridCall("setMatrix", "matrix",
                 [s \in 1..Len(mapped.mappings) |->
                     [l8 |-> mapped.mappings[s].l8, x |-> Undefined,
                      y |-> Undefined, matrix |-> mapped.mappings[s].matrix]],
                 mapped.thrown)

\* The method L8Grid gets for an L8 method with the only argument fn: the
\* method is called on every L8 without fn and returns a promise
gridClearMatrix ==
    gridCall("clearMatrix", "callback",
             [s \in 1..Len(grid_) |->
                 [l8 |-> grid_[s].l8, x |-> Undefined, y |-> Undefined,
                  matrix |-> <<>>]],
             "none")

\* The device calls of grid call c
CallsOf(calls, c) == {d \in 1..Len(calls) : calls[d].call = c}

\* A join that is fulfilled by the first promise that is
joinAfter_any(join, calls, c) ==
    IF join # "pending" THEN join
    ELSE IF \E d \in CallsOf(calls, c) : calls[d].state = "error"
    THEN "rejected"
    ELSE IF \E d \in CallsOf(calls, c) : calls[d].state = "ok"
    THEN "fulfilled"
    ELSE "pending"

\* RSVP.all: rejected by the first promise that is rejected, fulfilled when
\* all are fulfilled, settled once
joinAfter(join, calls, c) ==
    IF join # "pending" THEN join
    ELSE IF \E d \in CallsOf(calls, c) : calls[d].state = "error"
    THEN "rejected"
    ELSE IF \A d \in CallsOf(calls, c) : calls[d].state = "ok"
    THEN "fulfilled"
    ELSE "pending"

\* An L8 completes call d.  With a callback the L8 invokes the fn it was
\* given; without, it settles the promise it returned.
deviceComplete(d, error) ==
    /\ d \in 1..Len(deviceCalls)
    /\ deviceCalls[d].state = "pending"
    /\ deviceCalls' = [deviceCalls EXCEPT
                          ![d].state = IF error THEN "error" ELSE "ok"]
    /\ LET c == deviceCalls[d].call
       IN  gridCalls' = [gridCalls EXCEPT
               ![c] = IF @.kind = "callback"
                      THEN [@ EXCEPT
                               !.join = joinAfter(@, deviceCalls', c),
                               !.rejectedBy =
                                   IF gridCalls[c].join = "pending" /\ error
                                   THEN deviceCalls[d].l8 ELSE @]
                      ELSE [@ EXCEPT
                               !.fnCalls = Append(@,
                                   IF error THEN deviceCalls[d].l8 ELSE 0)]]
    /\ gridThrow' = "none"
    /\ UNCHANGED <<grid_, built>>
    /\ UNCHANGED sessionVars
    /\ UNCHANGED <<receiveBuffer_, crashed, emitted>>
    /\ UNCHANGED harnessVars

\* The then or catch callback of the promise of RSVP.all runs: fn(false,
\* results) or fn(error, false)
joinCallback(c) ==
    /\ c \in 1..Len(gridCalls)
    /\ gridCalls[c].join \in {"fulfilled", "rejected"}
    /\ ~gridCalls[c].notified
    /\ gridCalls' = [gridCalls EXCEPT
                        ![c].notified = TRUE,
                        ![c].fnCalls = Append(@, gridCalls[c].rejectedBy)]
    /\ gridThrow' = "none"
    /\ UNCHANGED <<grid_, built, deviceCalls>>
    /\ UNCHANGED sessionVars
    /\ UNCHANGED <<receiveBuffer_, crashed, emitted>>
    /\ UNCHANGED harnessVars

\* The surface of a grid and the matrix that fills it, one value per pixel
Width(grid) == Max({grid[i].position.x : i \in 1..Len(grid)}) + 8
Height(grid) == Max({grid[i].position.y : i \in 1..Len(grid)}) + 8
FullMatrix(grid) == [i \in 1..(Width(grid) * Height(grid)) |-> i]

\* Grid coordinates on, next to and beyond the first segments
GridXs == {-1, 0, 7, 8, 15, 16}
GridYs == {-1, 0, 7, 8, 16}

NextGrid ==
    \/ \E direction \in Directions : compose(direction)
    \/ toGrid
    \/ \E x \in GridXs, y \in GridYs : gridSetLED(x, y)
    \/ gridSetMatrix(FullMatrix(grid_))
    \/ gridClearMatrix
    \/ \E d \in 1..Len(deviceCalls), error \in BOOLEAN : deviceComplete(d, error)
    \/ \E c \in 1..Len(gridCalls) : joinCallback(c)

InitGrid ==
    /\ grid_ = addToGrid_(<<>>, 1, 0, 0)
    /\ built = FALSE
    /\ gridCalls = <<>>
    /\ deviceCalls = <<>>
    /\ gridThrow = "none"

Init ==
    /\ InitSession
    /\ InitGrid
    /\ original = <<>>
    /\ stream = <<>>
    /\ received = <<>>
    /\ phase = "idle"
    /\ bytewise = TRUE

Next ==
    \/ open
    \/ \E p \in 1..Len(ports), error \in BOOLEAN : openCallback(p, error)
    \/ close
    \/ \E p \in 1..Len(ports) : closeCallback(p)
    \/ \E kind \in SendKinds : sendFrame(kind)
    \/ \E r \in 1..Len(requests), error \in BOOLEAN : writeCallback(r, error)
    \/ \E r \in 1..Len(requests), error \in BOOLEAN : drainCallback(r, error)
    \/ \E p \in 1..Len(ports), data \in DeviceChunks : receive(p, data)

\* The session: connection handling, sends, and data from the device
Spec == Init /\ [][Next]_vars

NextChunks ==
    \/ \E frames \in SeqsUpTo(HarnessFrames, MaxFrames) : build(frames)
    \/ \E k \in 1..Len(stream) : feed(k)

\* Short frames, every way of cutting their bytes into chunks
SpecChunks == Init /\ [][NextChunks]_vars

NextRoundTrip ==
    \/ \E command \in Byte, parameters \in ShortParameters \cup LongParameters :
           build(<<[command |-> command, parameters |-> parameters]>>)
    \/ feed(Len(stream))

\* One frame of any command byte, short or long, delivered in one piece
SpecRoundTrip == Init /\ [][NextRoundTrip]_vars

NextCommands ==
    \/ open
    \/ \E p \in 1..Len(ports), error \in BOOLEAN : openCallback(p, error)
    \/ \E x \in LedXs, y \in LedYs, color \in Colors, pad \in LedPads :
          setLED(x, y, color, pad)
    \/ \E matrix \in Matrices : setMatrix(matrix)
    \/ \E color \in Colors, speed \in Speeds :
          setScrollingText(<<72, 105>>, color, speed, TRUE)
    \/ \E orientation \in Orientations : setOrientation(orientation)
    \/ \E frames \in FrameLists, durations \in DurationLists :
          storeAnimation(frames, durations)
    \/ \E matrices \in MatrixLists, durations \in PrepareDurations :
          prepareAnimation(matrices, durations)
    \/ \E r \in 1..Len(requests), error \in BOOLEAN : writeCallback(r, error)
    \/ \E r \in 1..Len(requests), error \in BOOLEAN : drainCallback(r, error)
    \/ \E p \in 1..Len(ports), data \in CommandChunks : receive(p, data)

\* The command methods on one session, one command in flight
SpecCommands == Init /\ [][NextCommands]_vars

\* What the device answers to setOrientation
OrientationChunks ==
    {buildFrame(CMD_OK, FromHexString(<<6, 10>>)),
     buildFrame(CMD_OK, <<CMD_L8_SET_AUTOROTATE>>),
     buildFrame(CMD_OK, FromHexString(<<6, 10>>) \o <<0>>),
     buildFrame(CMD_ERR, <<CMD_L8_SET_AUTOROTATE>>)}

\* One orientation of each kind: automatic, manual, unknown
OrientationInputs == {"auto", "up", "diagonal"}

NextOrientation ==
    \/ open
    \/ \E p \in 1..Len(ports), error \in BOOLEAN : openCallback(p, error)
    \/ \E orientation \in OrientationInputs : setOrientation(orientation)
    \/ \E r \in 1..Len(requests), error \in BOOLEAN : writeCallback(r, error)
    \/ \E r \in 1..Len(requests), error \in BOOLEAN : drainCallback(r, error)
    \/ \E p \in 1..Len(ports), data \in OrientationChunks : receive(p, data)

\* setOrientation on one session
SpecOrientation == Init /\ [][NextOrientation]_vars

\* The matrix lists prepareAnimation is given, and what the device
\* answers to the frames and to the animation
OtherMatrix == [i \in 1..64 |-> Color(4, 5, 6)]
AnimationLists ==
    {<<>>, <<GoodMatrix>>, <<GoodMatrix, OtherMatrix>>,
     <<OtherMatrix, GoodMatrix>>}
AnimationChunks ==
    {buildFrame(CMD_L8_STORE_FRAME_RESPONSE, <<5>>),
     buildFrame(CMD_L8_STORE_FRAME_RESPONSE, <<7>>),
     buildFrame(CMD_ERR, FromHexString(<<6, 10>>)),
     buildFrame(CMD_L8_STORE_ANIM_RESPONSE, <<0>>),
     buildFrame(CMD_ERR, <<CMD_L8_STORE_ANIM>>)}

NextAnimation ==
    \/ open
    \/ \E p \in 1..Len(ports), error \in BOOLEAN : openCallback(p, error)
    \/ \E matrices \in AnimationLists, durations \in PrepareDurations :
           prepareAnimation(matrices, durations)
    \/ \E r \in 1..Len(requests), error \in BOOLEAN : writeCallback(r, error)
    \/ \E r \in 1..Len(requests), error \in BOOLEAN : drainCallback(r, error)
    \/ \E p \in 1..Len(ports), data \in AnimationChunks : receive(p, data)

\* prepareAnimation on one session
SpecAnimation == Init /\ [][NextAnimation]_vars

\* What the device answers to the acceleration query
AccelerationChunks ==
    {buildFrame(CMD_L8_ACC_RESPONSE, <<10, 20, 30, 2, 1, 1, 1>>),
     buildFrame(CMD_ERR, <<CMD_L8_ACC_QUERY>>),
     buildFrame(CMD_OK, <<CMD_L8_ACC_QUERY>>)}

NextStream ==
    \/ open
    \/ \E p \in 1..Len(ports), error \in BOOLEAN : openCallback(p, error)
    \/ attach
    \/ detach
    \/ AccelerationStream_read
    \/ cooldownTimeout
    \/ \E r \in 1..Len(requests), error \in BOOLEAN : writeCallback(r, error)
    \/ \E r \in 1..Len(requests), error \in BOOLEAN : drainCallback(r, error)
    \/ \E p \in 1..Len(ports), data \in AccelerationChunks : receive(p, data)

\* An acceleration stream on one session
SpecStream == Init /\ [][NextStream]_vars

NextStreamError ==
    \/ open
    \/ \E p \in 1..Len(ports), error \in BOOLEAN : openCallback(p, error)
    \/ attach
    \/ detach
    \/ AccelerationStream_read
    \/ cooldownTimeout
    \/ \E r \in 1..Len(requests), error \in BOOLEAN : writeCallback(r, error)
    \/ \E r \in 1..Len(requests), error \in BOOLEAN : drainCallback(r, error)
    \/ \E p \in 1..Len(ports), data \in AccelerationChunks : receive(p, data)
    \/ uncaughtException

\* An acceleration stream in a process that survives the exceptions thrown
\* in its callbacks
SpecStreamError == Init /\ [][NextStreamError]_vars

\* What a disturbed line delivers: the answer to a ping whole, cut in two,
\* followed in the same chunk by bytes that are no frame or by a frame with
\* a wrong checksum, and one chunk longer than the receive buffer
PingOk == buildFrame(CMD_OK, <<CMD_PING>>)
OversizedChunk == [i \in 1..(BufferCapacity + 1) |-> 0]
DamagedChunks ==
    {PingOk,
     SubSeq(PingOk, 1, 3),
     SubSeq(PingOk, 4, 6) \o <<0, 0, 0, 0>>,
     PingOk \o <<0, 0, 0, 0>>,
     PingOk \o PingOk \o <<170, 85, 1, CMD_OK, 255>>,
     OversizedChunk}

NextDamaged ==
    \/ open
    \/ \E p \in 1..Len(ports), error \in BOOLEAN : openCallback(p, error)
    \/ sendFrame("ping")
    \/ \E r \in 1..Len(requests), error \in BOOLEAN : writeCallback(r, error)
    \/ \E r \in 1..Len(requests), error \in BOOLEAN : drainCallback(r, error)
    \/ \E p \in 1..Len(ports), data \in DamagedChunks : receive(p, data)

\* Pings on a session whose line delivers damaged and oversized chunks
SpecDamaged == Init /\ [][NextDamaged]_vars

\* Reconnection: open() is called again on a session that is opening,
\* connected or closed, while pings are sent and answered
NextReopen ==
    \/ reopen
    \/ \E p \in 1..MaxReopens, error \in BOOLEAN : openCallback(p, error)
    \/ close
    \/ \E p \in 1..MaxReopens : closeCallback(p)
    \/ sendFrame("ping")
    \/ \E r \in 1..MaxSends, error \in BOOLEAN : writeCallback(r, error)
    \/ \E r \in 1..MaxSends, error \in BOOLEAN : drainCallback(r, error)
    \/ \E p \in 1..MaxReopens : receive(p, PingOk)

SpecReopen == Init /\ [][NextReopen]_vars

\* The session used through promises: open, close and ping are called
\* without their callbacks
NextPromise ==
    \/ openPromised
    \/ \E p \in 1..MaxOpens, error \in BOOLEAN : openCallback(p, error)
    \/ closePromised
    \/ \E p \in 1..MaxOpens : closeCallback(p)
    \/ pingPromised
    \/ \E r \in 1..MaxSends, error \in BOOLEAN : writeCallback(r, error)
    \/ \E r \in 1..MaxSends, error \in BOOLEAN : drainCallback(r, error)
    \/ \E p \in 1..MaxOpens, data \in DeviceFrames : receive(p, data)

SpecPromise == Init /\ [][NextPromise]_vars

\* A grid of L8s: description, construction and commands
SpecGrid == Init /\ [][NextGrid]_vars

\* Parameter buffers around the limit of the one-byte length field
LimitParameters ==
    {[i \in 1..n |-> (i * 7) % 256] : n \in 253..MaxEncodeLength}

NextEncode ==
    \/ \E command \in 0..31, parameters \in LimitParameters :
           build(<<[command |-> command, parameters |-> parameters]>>)
    \/ feed(Len(stream))

\* buildFrame at the limit of the length field, the result delivered in
\* one piece
SpecEncode == Init /\ [][NextEncode]_vars

NextRaw ==
    \/ \E pieces \in SeqsUpTo(RawPieces, MaxPieces) : buildRaw(pieces)
    \/ \E k \in 1..Len(stream) : feed(k)

\* Raw byte streams, every way of cutting them into chunks
SpecRaw == Init /\ [][NextRaw]_vars

\* ------------------------------------------------------------------------
\* Properties of the codec
\* ------------------------------------------------------------------------

\* What an observer compares: command and parameters of each frame event
EventView(frames) ==
    [i \in 1..Len(frames) |-> [command |-> frames[i].command,
                               parameters |-> frames[i].parameters]]

IsPrefix(s, t) == Len(s) <= Len(t) /\ s = SubSeq(t, 1, Len(s))

\* C1: chunk-boundary invariance.  However the bytes of a sequence of
\* encoded frames are cut into non-empty chunks, no chunk makes the decoder
\* fail, the frameReceived events seen so far are the leading frames of the
\* sequence, and once the last byte is delivered they are exactly the
\* sequence: same commands, same parameters, same order.
C1_ChunkInvariance ==
    phase = "feeding" =>
        /\ crashed = "none"
        /\ IsPrefix(EventView(received), original)
        /\ stream = <<>> => /\ EventView(received) = original
                            /\ receiveBuffer_.length = 0

\* Two frames delivered byte by byte have both arrived
C1_Witness ==
    /\ phase = "feeding"
    /\ stream = <<>>
    /\ Len(original) = 2
    /\ bytewise
    /\ EventView(received) = original

\* C2: round trip.  The frame built by buildFrame for any command byte and
\* any parameter buffer of the model (0..MaxLength bytes), handed to the
\* decoder, yields exactly one frame with that command and those
\* parameters and leaves the receive buffer empty.
C2_RoundTrip ==
    (phase = "feeding" /\ stream = <<>>) =>
        /\ crashed = "none"
        /\ Len(received) = 1
        /\ received[1].command = original[1].command
        /\ received[1].parameters = original[1].parameters
        /\ receiveBuffer_.length = 0

\* A frame with the longest parameter buffer has made the round trip
C2_Witness ==
    /\ phase = "feeding"
    /\ stream = <<>>
    /\ Len(original[1].parameters) = MaxLength
    /\ Len(received) = 1
    /\ received[1].parameters = original[1].parameters

\* ------------------------------------------------------------------------
\* Properties of the request/response correlation
\* ------------------------------------------------------------------------

Range(f) == {f[i] : i \in DOMAIN f}

Requests == 1..Len(requests)

\* A step that is a "data" event of some port
ReceiveStep == \E p \in 1..Len(ports), data \in DeviceChunks : receive(p, data)

\* The response shape a send awaits, as the protocol describes it: the
\* generic OK frame echoing the sent command byte, or the given command
\* with, when given, exactly the given parameters
MatchesExpectation(frame, req) ==
    CASE req.expectedResponse.kind = "true" ->
             /\ frame.command = CMD_OK
             /\ Len(frame.parameters) >= 1
             /\ frame.parameters[1] = req.buffer[4]
      [] req.expectedResponse.kind = "object" ->
             /\ frame.command = req.expectedResponse.command
             /\ req.expectedResponse.hasParameters =>
                    frame.parameters = req.expectedResponse.parameters
      [] OTHER -> FALSE

\* The error condition of a send: the CMD_ERR frame naming the sent command
\* byte, or the explicit error descriptor
MatchesErrorCondition(frame, req) ==
    CASE req.handleError.kind = "true" ->
             /\ frame.command = CMD_ERR
             /\ Len(frame.parameters) >= 1
             /\ frame.parameters[1] = req.buffer[4]
      [] req.handleError.kind = "object" ->
             /\ frame.command = req.handleError.command
             /\ req.handleError.hasParameters =>
                    frame.parameters = req.handleError.parameters
      [] OTHER -> FALSE

Concerns(frame, req) ==
    MatchesExpectation(frame, req) \/ MatchesErrorCondition(frame, req)

\* The frames of a list that concern a request
Concerning(frames, req) == SelectSeq(frames, LAMBDA f : Concerns(f, req))

Pending(r) == requests[r].stage = "listening"

\* C3: the completion of a send that awaits a response is invoked exactly
\* once, by the first received frame that matches its expectation or its
\* error condition; its listener is removed in the same step, and once the
\* completion has been invoked nothing invokes it again.
C3_SettledOnce ==
    [][\A r \in Requests :
          /\ (ReceiveStep /\ Pending(r) /\ Concerning(emitted', requests[r]) # <<>>)
                 => /\ requests'[r].stage = "done"
                    /\ requests'[r].calls = 1
                    /\ requests'[r].outcome \in {"ok", "L8Error"}
                    /\ r \notin Range(listeners')
          /\ requests[r].stage = "done"
                 => /\ requests'[r] = requests[r]
                    /\ r \notin Range(listeners')
          /\ requests'[r].calls <= 1]_vars

\* A completed request has seen a second matching frame go by
C3_Witness ==
    \E r \in Requests :
        /\ requests[r].registration > 0
        /\ requests[r].stage = "done"
        /\ requests[r].calls = 1
        /\ r \notin Range(listeners)
        /\ Len(emitted) = 2
        /\ \A i \in 1..2 : MatchesExpectation(emitted[i], requests[r])

\* C4: a received frame that matches neither the expectation nor the error
\* condition of a pending send leaves that send as it is, pending with its
\* listener registered, even when the frame settles another pending send
\* that awaits a different shape.
C4_OtherShapeKeepsPending ==
    [][\A r \in Requests :
          (ReceiveStep /\ Pending(r) /\ Concerning(emitted', requests[r]) = <<>>)
              => /\ requests'[r] = requests[r]
                 /\ r \in Range(listeners')]_vars

\* Of two sends pending together the later registered one has been settled
\* by its frame, which the earlier one, still pending, does not await
C4_Witness ==
    \E a, b \in Requests :
        /\ Pending(a)
        /\ a \in Range(listeners)
        /\ requests[b].registration > requests[a].registration
        /\ requests[b].stage = "done"
        /\ requests[b].outcome = "ok"
        /\ Len(emitted) = 1
        /\ MatchesExpectation(emitted[1], requests[b])
        /\ ~Concerns(emitted[1], requests[a])

SameShape(a, b) ==
    /\ requests[a].expectedResponse = requests[b].expectedResponse
    /\ requests[a].handleError = requests[b].handleError
    /\ requests[a].buffer[4] = requests[b].buffer[4]

\* C5 as claimed: of two sends that await the same shape and are pending
\* together, a single matching frame settles only the one registered first;
\* the other stays pending.
C5_FirstRegisteredWins ==
    [][\A a, b \in Requests :
          (/\ ReceiveStep
           /\ Pending(a) /\ Pending(b)
           /\ requests[a].registration < requests[b].registration
           /\ SameShape(a, b)
           /\ Len(emitted') = 1
           /\ MatchesExpectation(emitted'[1], requests[a]))
              => /\ requests'[a].stage = "done"
                 /\ requests'[b] = requests[b]
                 /\ b \in Range(listeners')]_vars

\* C5 amended: of two sends that await the same shape and are pending
\* together, a single matching frame settles both: each completion is
\* invoked exactly once by that frame and neither listener stays registered.
C5_BothSettled ==
    [][\A a, b \in Requests :
          (/\ ReceiveStep
           /\ Pending(a) /\ Pending(b)
           /\ requests[a].registration < requests[b].registration
           /\ SameShape(a, b)
           /\ Len(emitted') = 1
           /\ MatchesExpectation(emitted'[1], requests[a]))
              => /\ requests'[a].stage = "done" /\ requests'[b].stage = "done"
                 /\ requests'[a].calls = 1 /\ requests'[b].calls = 1
                 /\ requests'[a].outcome = "ok" /\ requests'[b].outcome = "ok"
                 /\ listeners' = <<>>]_vars

\* Two sends of the same command were pending and one frame has arrived
C5_Witness ==
    /\ Len(requests) = 2
    /\ SameShape(1, 2)
    /\ requests[1].registration > 0 /\ requests[2].registration > 0
    /\ requests[1].outcome = "ok" /\ requests[2].outcome = "ok"
    /\ Len(emitted) = 1
    /\ MatchesExpectation(emitted[1], requests[1])

\* The first frame of a list that concerns a request is an error for it
FirstConcerningIsError(frames, req) ==
    /\ Concerning(frames, req) # <<>>
    /\ MatchesErrorCondition(Head(Concerning(frames, req)), req)

\* C6: a frame that matches the error condition of a pending send settles
\* that send with an L8Error and removes its listener, and nothing else
\* changes: the connection flag, the transport handle and the port stay as
\* they are, the receive buffer is what decoding leaves, no exception
\* escapes, and the pending sends the frame does not concern stay pending.
C6_ErrorSettlesOnlyItsSend ==
    [][\A p \in 1..Len(ports), data \in DeviceChunks, r \in Requests :
          (/\ receive(p, data)
           /\ Pending(r)
           /\ FirstConcerningIsError(emitted', requests[r]))
              => /\ requests'[r].stage = "done"
                 /\ requests'[r].outcome = "L8Error"
                 /\ requests'[r].calls = 1
                 /\ r \notin Range(listeners')
                 /\ isConnected' = isConnected
                 /\ serialport_' = serialport_
                 /\ ports' = ports
                 /\ crashed' = "none"
                 /\ receiveBuffer_' = onResponseParse(receiveBuffer_, data).receiveBuffer
                 /\ \A o \in Requests :
                        (Pending(o) /\ Concerning(emitted', requests[o]) = <<>>)
                            => /\ requests'[o] = requests[o]
                               /\ o \in Range(listeners')
                 /\ \A o \in Requests :
                        ~Pending(o) => requests'[o] = requests[o]]_vars

\* After the error of one command the frame just received has acknowledged
\* a later registered command on the same connection
C6_Witness ==
    \E r, o \in Requests :
        /\ requests[r].outcome = "L8Error"
        /\ requests[r].calls = 1
        /\ requests[o].registration > requests[r].registration
        /\ requests[o].outcome = "ok"
        /\ Len(emitted) = 1
        /\ MatchesExpectation(emitted[1], requests[o])
        /\ isConnected
        /\ serialport_ # 0
        /\ ports[serialport_].state = "open"

\* C7: no timeout.  Once a send is registered and waiting, its completion
\* is invoked only in a step that receives a frame matching its expectation
\* or its error condition; every other step (close, open, another send, a
\* frame for somebody else, a fatal decode error) leaves it pending.
C7_NoTimeout ==
    [][\A r \in Requests :
          (Pending(r) /\ requests'[r] # requests[r])
              => /\ ReceiveStep
                 /\ Concerning(emitted', requests[r]) # <<>>]_vars

\* A request is still waiting after the connection has been closed
C7_Witness ==
    \E r \in Requests :
        /\ Pending(r)
        /\ requests[r].calls = 0
        /\ r \in Range(listeners)
        /\ ~isConnected
        /\ ports[1].state = "closed"

\* C8: a send that expects no response completes exactly once, with
\* success, in the step in which its drain succeeds; it never has a
\* listener, and no later step changes it.
C8_FireAndForget ==
    [][\A r \in Requests :
          requests[r].expectedResponse.kind = "false"
              => /\ drainCallback(r, FALSE)
                     => /\ requests'[r].stage = "done"
                        /\ requests'[r].outcome = "ok"
                        /\ requests'[r].calls = 1
                        /\ listeners' = listeners
                 /\ r \notin Range(listeners')
                 /\ requests'[r].registration = 0
                 /\ requests[r].stage = "done" => requests'[r] = requests[r]
                 /\ requests'[r].calls <= 1]_vars

\* A fire-and-forget send has completed and a frame has arrived
C8_Witness ==
    \E r \in Requests :
        /\ requests[r].expectedResponse.kind = "false"
        /\ requests[r].stage = "done"
        /\ requests[r].outcome = "ok"
        /\ requests[r].calls = 1
        /\ emitted # <<>>

\* ------------------------------------------------------------------------
\* Properties of the connection state machine
\* ------------------------------------------------------------------------

\* The Connected state of the session: the transport behind the handle was
\* opened successfully and its close has not completed
Connected ==
    /\ serialport_ # 0
    /\ ports[serialport_].state \in {"open", "closing"}

\* C9: when the transport's open fails the session is Disconnected and the
\* error reaches the caller of open; isConnected is true only after an open
\* that succeeded and before the next completed close.
C9_ConnectedOnlyAfterSuccessfulOpen ==
    /\ isConnected => Connected
    /\ \A p \in 1..Len(ports) :
           ports[p].state = "failed" => ports[p].openResult = "error"

\* C10: a command sent while the session is not Connected fails at once
\* with the not-connected error: nothing is written to the transport, no
\* frameSent is emitted and no listener is registered.
C10_RejectedWhenNotConnected ==
    [][\A kind \in SendKinds :
          (sendFrame(kind) /\ ~Connected)
              => /\ lastThrow' = "NotConnected"
                 /\ writeCalls' = writeCalls
                 /\ requests' = requests
                 /\ frameSent' = frameSent
                 /\ listeners' = listeners]_vars

\* C11: close() on a session that is not Connected performs no transport
\* operation and leaves the connection flag, the transport handle, the
\* port, the receive buffer and the listeners as they are; on a Connected
\* session the completed transport close leaves the session Disconnected.
C11_CloseOnlyActsWhenConnected ==
    [][/\ (close /\ ~Connected)
            => UNCHANGED <<isConnected, serialport_, ports, receiveBuffer_,
                           listeners>>
       /\ \A p \in 1..Len(ports) :
              (closeCallback(p) /\ Connected)
                  => /\ ~isConnected'
                     /\ serialport_' = 0
                     /\ ports'[p].state = "closed"]_vars

\* ------------------------------------------------------------------------
\* Properties of the decoder on raw byte streams
\* ------------------------------------------------------------------------

\* The bytes waiting at the start of the receive buffer
Buffered == SubSeq(receiveBuffer_.buffer, 1,
                   Min(receiveBuffer_.length, Len(receiveBuffer_.buffer)))

BadMagic(bytes) ==
    /\ Len(bytes) >= 2
    /\ (bytes[1] # 170 \/ bytes[2] # 85)

\* A complete frame at the start of bytes whose trailing byte is not the
\* CRC-8 of its payload
BadChecksum(bytes) ==
    /\ Len(bytes) >= 4
    /\ ~BadMagic(bytes)
    /\ Len(bytes) >= bytes[3] + 4
    /\ bytes[bytes[3] + 4] # Crc8Value(bytes, 0, 4, bytes[3] + 3)

\* C14: every frame delivered through frameReceived has
\* payloadLength = 1 + Len(parameters).
C14_PayloadLength ==
    \A i \in 1..Len(received) :
        received[i].payloadLength = 1 + Len(received[i].parameters)

\* C15 as claimed: the decoder fails with the magic-bytes error as soon as
\* two bytes that are not AA 55 stand at the start of the receive buffer.
C15_MagicFirst ==
    BadMagic(Buffered) => crashed = "magic"

\* C15 amended: the decoder fails with the magic-bytes error exactly when
\* at least four bytes are buffered and the first two are not AA 55; with
\* fewer than four bytes buffered it waits; the failing chunk delivers no
\* frame.
C15_MagicAtFourBytes ==
    /\ crashed = "magic" <=> (BadMagic(Buffered) /\ Len(Buffered) >= 4)
    /\ crashed = "magic" => emitted = <<>>

\* After a delivered frame, stray bytes have ended the session
C15_Witness ==
    /\ phase = "raw"
    /\ crashed = "magic"
    /\ received # <<>>
    /\ BadMagic(Buffered)

\* C16: a complete frame whose trailing byte is not the CRC-8 of its
\* payload is never delivered: the decoder fails with the checksum error
\* exactly when such a frame stands at the start of the receive buffer,
\* the failing chunk delivers no frame, and every delivered frame carries
\* the CRC-8 of its payload.
C16_BadChecksumNeverDelivered ==
    /\ crashed = "checksum" <=> BadChecksum(Buffered)
    /\ crashed = "checksum" => emitted = <<>>
    /\ \A i \in 1..Len(received) :
           received[i].checksum
               = ToHex(Crc8Value(received[i].payload, 0, 1,
                                 Len(received[i].payload)))

\* After a delivered frame, a frame with a wrong trailing byte has ended
\* the session
C16_Witness ==
    /\ phase = "raw"
    /\ crashed = "checksum"
    /\ received # <<>>
    /\ BadChecksum(Buffered)

\* C17: buildFrame returns no frame for parameters longer than 254 bytes,
\* and the length byte of every frame it returns is 1 + Len(parameters).
C17_LengthByteFits ==
    (phase = "feeding" /\ received = <<>> /\ crashed = "none" /\ stream # <<>>)
        => /\ Len(original[1].parameters) <= 254
           /\ stream[3] = 1 + Len(original[1].parameters)

\* ------------------------------------------------------------------------
\* Properties of the command methods
\* ------------------------------------------------------------------------

\* A colour with a channel outside 0..15
OutOfRange(color) ==
    color.r \notin 0..15 \/ color.g \notin 0..15 \/ color.b \notin 0..15

\* The step threw a RangeError to its caller and touched nothing
RejectedWithRangeError ==
    /\ lastThrow' = "RangeError"
    /\ UNCHANGED <<isConnected, serialport_, ports, receiveBuffer_,
                   listeners, requests, writeCalls, frameSent, crashed>>

\* The parameter bytes of a frame built by buildFrame
ParametersOf(buffer) == SubSeq(buffer, 5, Len(buffer) - 1)

\* C12: a call of setLED with a coordinate outside 0..7 or a colour channel
\* outside 0..15, of setMatrix with an array not of length 64 or holding an
\* out-of-range colour, of setScrollingText with an unknown speed, or of
\* storeAnimation with arrays of different length throws a RangeError,
\* writes nothing and leaves the session as it was.
C12_ValidationHasNoEffect ==
    [][/\ \A x \in LedXs, y \in LedYs, color \in Colors, pad \in LedPads :
              (/\ (x \notin 0..7 \/ y \notin 0..7 \/ OutOfRange(color))
               /\ setLED(x, y, color, pad))
                  => RejectedWithRangeError
       /\ \A matrix \in Matrices :
              (/\ \/ Len(matrix) # 64
                  \/ \E i \in 1..Len(matrix) : OutOfRange(matrix[i])
               /\ setMatrix(matrix))
                  => RejectedWithRangeError
       /\ \A color \in Colors, speed \in Speeds :
              (/\ speed \notin {"slow", "medium", "fast"}
               /\ setScrollingText(<<72, 105>>, color, speed, TRUE))
                  => RejectedWithRangeError
       /\ \A frames \in FrameLists, durations \in DurationLists :
              (/\ Len(frames) # Len(durations)
               /\ storeAnimation(frames, durations))
                  => RejectedWithRangeError]_vars

\* A call was rejected while a command was waiting for its response
C12_Witness ==
    /\ lastThrow = "RangeError"
    /\ isConnected
    /\ writeCalls = 1
    /\ listeners # <<>>
    /\ requests[1].stage = "listening"

\* C13: a prepareAnimation call on a connected session whose list holds a
\* matrix with a colour channel outside 0..15 throws the validation error
\* and writes nothing.
C13_PrepareValidatesFirst ==
    [][\A matrices \in MatrixLists, durations \in PrepareDurations :
          (/\ Connected
           /\ Len(matrices) = Len(durations)
           /\ \E m \in 1..Len(matrices), i \in 1..64 :
                  OutOfRange(matrices[m][i])
           /\ prepareAnimation(matrices, durations))
              => RejectedWithRangeError]_vars

\* The frame setOrientation("auto") writes
AutoRotateFrame ==
    <<170, 85, 2, CMD_L8_SET_AUTOROTATE, 1,
      Crc8Value(<<CMD_L8_SET_AUTOROTATE, 1>>, 0, 1, 2)>>

\* An OK frame with exactly the parameter byte 6a is among the frames
OkAcknowledged(frames) ==
    \E i \in 1..Len(frames) :
        frames[i].command = CMD_OK /\ frames[i].parameters = <<106>>

\* The requests other than setOrientation("auto") that a step moves on
StepsOfOthers ==
    Cardinality({q \in Requests :
                    /\ requests[q].kind # "setOrientationAuto"
                    /\ requests'[q] # requests[q]})

\* C18: setOrientation("auto") writes one frame, AA 55 02 AUTOROTATE 01
\* and its CRC-8; its completion is invoked with success only in a step
\* that receives an OK frame whose parameters are exactly 6a, and that
\* completion writes nothing further: a step that moves it on writes at
\* most one frame for each other request moved on in the same step.
C18_AutoOrientation ==
    [][/\ (setOrientation("auto") /\ lastThrow' = "none")
            => /\ writeCalls' = writeCalls + 1
               /\ Len(requests') = Len(requests) + 1
               /\ requests'[Len(requests')].buffer = AutoRotateFrame
       /\ \A r \in Requests :
              (/\ requests[r].kind = "setOrientationAuto"
               /\ requests'[r] # requests[r])
                  => /\ requests'[r].outcome = "ok" => OkAcknowledged(emitted')
                     /\ writeCalls' - writeCalls = Len(requests') - Len(requests)
                     /\ Len(requests') - Len(requests) <= StepsOfOthers]_vars

\* setOrientation("auto") has completed with success
C18_Witness ==
    \E r \in Requests :
        /\ requests[r].kind = "setOrientationAuto"
        /\ requests[r].outcome = "ok"
        /\ requests[r].calls = 1
        /\ OkAcknowledged(emitted)
        /\ writeCalls = 1

\* C19: the L8_SET_ORIENTATION frame of a manual orientation is written
\* only in a step that receives the OK(6a) acknowledgement of the
\* AUTOROTATE frame, and never for "auto".
C19_CodeOnlyAfterAcknowledgement ==
    [][\A r \in (Len(requests) + 1)..Len(requests') :
          requests'[r].kind = "setOrientationCode"
              => /\ OkAcknowledged(emitted')
                 /\ \E f \in Requests :
                        /\ requests[f].kind = "setOrientationManual"
                        /\ requests[f].stage = "listening"
                        /\ requests'[f].outcome = "ok"]_vars

\* The parameter bytes the claim gives for storeAnimation
ClaimedAnimationParameters(frames, durations) ==
    <<Len(frames)>> \o
    [i \in 1..(2 * Len(frames)) |->
        IF i % 2 = 1 THEN frames[(i + 1) \div 2]
        ELSE Round100(durations[i \div 2])]

\* C20: storeAnimation with arrays of equal length n sends the parameter
\* bytes n, f0, d0, f1, d1, ... with d_i = round(durations_i / 100); with
\* arrays of different length it throws a RangeError and sends nothing.
C20_AnimationDurations ==
    [][\A frames \in FrameLists, durations \in DurationLists :
          storeAnimation(frames, durations)
              => IF Len(frames) # Len(durations) THEN RejectedWithRangeError
                 ELSE lastThrow' = "none"
                          => ParametersOf(requests'[Len(requests')].buffer)
                                 = ClaimedAnimationParameters(frames, durations)
      ]_vars

\* The polls of the acceleration stream that await their response
PollsInFlight ==
    {r \in Requests : requests[r].then.type = "stream"
                          /\ requests[r].stage # "done"}

\* C22: in the step that receives a reading the stream starts one timer and
\* issues no poll; while that timer is pending no step issues a poll; the
\* step in which the timer fires issues exactly one poll if the consumer
\* has asked for data since the reading was pushed, and none otherwise.
C22_Cooldown ==
    [][/\ accelerationStream'.pushed > accelerationStream.pushed
              => /\ accelerationStream'.polls = accelerationStream.polls
                 /\ accelerationStream'.timers = accelerationStream.timers + 1
       /\ (/\ accelerationStream.timers > 0
           /\ accelerationStream'.timers >= accelerationStream.timers)
              => accelerationStream'.polls = accelerationStream.polls
       /\ accelerationStream'.timers < accelerationStream.timers
              => accelerationStream'.polls - accelerationStream.polls
                     = IF accelerationStream.reading THEN 1 ELSE 0]_vars

\* The timer has fired after a request made during the cooldown, and the
\* follow-up poll awaits its response
C22_Witness ==
    /\ accelerationStream.pushed = 1
    /\ accelerationStream.polls = 2
    /\ accelerationStream.timers = 0
    /\ ~accelerationStream.cooldown_
    /\ \E r \in PollsInFlight : requests[r].stage = "listening"

\* C23: at most one poll of the stream awaits its response.
C23_OnePollInFlight == Cardinality(PollsInFlight) <= 1

\* A second poll is in flight after the first was answered
C23_Witness ==
    /\ accelerationStream.polls >= 2
    /\ accelerationStream.pushed >= 1
    /\ Cardinality(PollsInFlight) = 1

\* C24: a poll is issued only by a step taken while a consumer is attached.
C24_PollsOnlyWhileAttached ==
    [][accelerationStream'.polls > accelerationStream.polls
          => accelerationStream.attached]_vars

\* The requests of kind k written by the call whose first request is c
OfCall(c, k) ==
    {r \in Requests : requests[r].call = c /\ requests[r].kind = k}

\* The k-th request of a set of requests, in the order they were written
Nth(S, k) == CHOOSE r \in S : Cardinality({q \in S : q <= r}) = k

\* The buffer is the store-frame command for the matrix
StoresFrame(buffer, matrix) ==
    /\ buffer[4] = CMD_L8_STORE_FRAME
    /\ ParametersOf(buffer) = encodeMatrix(matrix)

\* The requests of the prepareAnimation call that began with request c
\* follow the series: one frame at a time in list order, then the animation
PreparedInOrder(c) ==
    LET F == OfCall(c, "storeAnimationFrame")
        A == OfCall(c, "storeAnimation")
        rest == requests[c].then.rest
        durations == requests[c].then.durations
        ids == [k \in 1..Cardinality(F) |-> requests[Nth(F, k)].result[1]]
    IN  /\ Cardinality({r \in F : requests[r].stage # "done"}) <= 1
        /\ Cardinality(F) <= 1 + Len(rest)
        /\ \A k \in 2..Cardinality(F) :
               /\ StoresFrame(requests[Nth(F, k)].buffer, rest[k - 1])
               /\ requests[Nth(F, k - 1)].outcome = "ok"
               /\ requests[Nth(F, k - 1)].result # <<>>
        /\ Cardinality(A) <= 1
        /\ \A a \in A :
               /\ Cardinality(F) = 1 + Len(rest)
               /\ \A r \in F : r < a /\ requests[r].outcome = "ok"
               /\ ParametersOf(requests[a].buffer)
                      = ClaimedAnimationParameters(ids, durations)
        /\ \A r \in F :
               requests[r].outcome \notin {"none", "ok"}
                   => \A q \in Requests : requests[q].call = c => q <= r

MinOf(S) == CHOOSE m \in S : \A n \in S : m <= n

\* C25: in a grid built by toGrid the smallest x and the smallest y of the
\* segments are both 0, whatever composition came before.
C25_NormalizedToOrigin ==
    built =>
        /\ MinOf({grid_[i].position.x : i \in 1..Len(grid_)}) = 0
        /\ MinOf({grid_[i].position.y : i \in 1..Len(grid_)}) = 0

\* C26: in a grid built by toGrid the origin pixel of every segment maps to
\* that segment with the local coordinates (0, 0), and no pixel lies in
\* the boxes of two segments.
C26_OriginMapsToOwnSegment ==
    built =>
        \A s \in 1..Len(grid_) :
            /\ mapCoordinates_(grid_, grid_[s].position.x, grid_[s].position.y)
                   = [thrown |-> "none", gridIndex |-> s, l8 |-> grid_[s].l8,
                      x |-> 0, y |-> 0]
            /\ \A t \in 1..Len(grid_) :
                   t # s => grid_[t].position # grid_[s].position

\* The segments of the grid whose box contains (x, y)
Covering(x, y) == {s \in 1..Len(grid_) : Covers(grid_[s], x, y)}

\* C27: setLED of the grid at (x, y) makes one call, setLED, on the L8 of a
\* segment whose box contains (x, y), with the coordinates relative to that
\* segment, both in 0..7; when no box contains (x, y) it throws a
\* RangeError and calls no L8.
C27_SetLEDOnOneDevice ==
    [][\A x \in GridXs, y \in GridYs :
          gridSetLED(x, y) =>
              IF Covering(x, y) = {}
              THEN /\ gridThrow' = "RangeError"
                   /\ deviceCalls' = deviceCalls
              ELSE /\ gridThrow' = "none"
                   /\ Len(deviceCalls') = Len(deviceCalls) + 1
                   /\ LET made == deviceCalls'[Len(deviceCalls')]
                      IN  /\ made.name = "setLED"
                          /\ made.x \in 0..7
                          /\ made.y \in 0..7
                          /\ \E s \in Covering(x, y) :
                                 /\ made.l8 = grid_[s].l8
                                 /\ made.x = x - grid_[s].position.x
                                 /\ made.y = y - grid_[s].position.y]_vars

\* setLED at (15, y) has reached the L8 of a segment at x = 8 as (7, y)
C27_Witness ==
    /\ built
    /\ gridThrow = "none"
    /\ \E d \in 1..Len(deviceCalls), s \in 1..Len(grid_) :
           /\ deviceCalls[d].name = "setLED"
           /\ deviceCalls[d].l8 = grid_[s].l8
           /\ grid_[s].position.x = 8
           /\ deviceCalls[d].x = 7
           /\ deviceCalls[d].state = "pending"

\* The calls a step has added to deviceCalls
NewCalls == {d \in 1..Len(deviceCalls') : d > Len(deviceCalls)}

\* C28: setMatrix of the grid with a matrix that fills the surface row by
\* row calls setMatrix once on the L8 of every segment, and the pixel at
\* index i, the point (i mod width, i div width) of the surface, is the
\* element localX + 8 * localY of the matrix handed to the L8 of a segment
\* whose box contains the point.
C28_MatrixSplitBySegment ==
    [][gridSetMatrix(FullMatrix(grid_)) =>
          /\ gridThrow' = "none"
          /\ \A s \in 1..Len(grid_) :
                 \E d \in NewCalls :
                     /\ deviceCalls'[d].l8 = grid_[s].l8
                     /\ deviceCalls'[d].name = "setMatrix"
                     /\ Len(deviceCalls'[d].matrix) = 64
                     /\ \A e \in NewCalls :
                            deviceCalls'[e].l8 = grid_[s].l8 => e = d
          /\ \A i \in 0..(Len(FullMatrix(grid_)) - 1) :
                 LET x == i % Width(grid_)
                     y == i \div Width(grid_)
                 IN  Covering(x, y) # {} =>
                         \E s \in Covering(x, y), d \in NewCalls :
                             /\ deviceCalls'[d].l8 = grid_[s].l8
                             /\ deviceCalls'[d].matrix[
                                    (x - grid_[s].position.x)
                                    + 8 * (y - grid_[s].position.y) + 1]
                                        = FullMatrix(grid_)[i + 1]]_vars

\* C29: the completion handed to setMatrix of the grid is never invoked
\* twice; it is invoked with success only when every L8 has acknowledged
\* its matrix, and with an error only of an L8 that failed.
C29_MatrixCompletionOnce ==
    \A c \in 1..Len(gridCalls) :
        gridCalls[c].name = "setMatrix" =>
            /\ Len(gridCalls[c].fnCalls) <= 1
            /\ \A k \in 1..Len(gridCalls[c].fnCalls) :
                   IF gridCalls[c].fnCalls[k] = 0
                   THEN \A d \in CallsOf(deviceCalls, c) :
                            deviceCalls[d].state = "ok"
                   ELSE \E d \in CallsOf(deviceCalls, c) :
                            /\ deviceCalls[d].state = "error"
                            /\ deviceCalls[d].l8 = gridCalls[c].fnCalls[k]

\* The completion of broadcast c has been invoked at most once, with
\* success only when every L8 has completed, with an error only of the L8
\* recorded as the first to fail
BroadcastCompletion(c) ==
    /\ Len(gridCalls[c].fnCalls) <= 1
    /\ gridCalls[c].notified => Len(gridCalls[c].fnCalls) = 1
    /\ \A k \in 1..Len(gridCalls[c].fnCalls) :
           IF gridCalls[c].fnCalls[k] = 0
           THEN \A d \in CallsOf(deviceCalls, c) : deviceCalls[d].state = "ok"
           ELSE gridCalls[c].fnCalls[k] = gridCalls[c].rejectedBy

\* C30: clearMatrix of the grid calls clearMatrix on the L8 of every segment
\* in the one step, before any of them completes; the L8 that fails first
\* is the one whose error is kept; and the completion is invoked at most
\* once, with success only after all L8s have completed and otherwise with
\* the error of the first L8 that failed.
C30_BroadcastJoin ==
    [][/\ gridClearMatrix =>
              /\ gridThrow' = "none"
              /\ Len(deviceCalls') = Len(deviceCalls) + Len(grid_)
              /\ \A s \in 1..Len(grid_) :
                     \E d \in NewCalls :
                         /\ deviceCalls'[d].l8 = grid_[s].l8
                         /\ deviceCalls'[d].name = "clearMatrix"
                         /\ deviceCalls'[d].state = "pending"
       /\ \A c \in 1..Len(gridCalls) :
              gridCalls[c].name = "clearMatrix" =>
                  /\ \A d \in CallsOf(deviceCalls, c) :
                         (/\ deviceCalls[d].state = "pending"
                          /\ deviceCalls'[d].state = "error"
                          /\ \A e \in CallsOf(deviceCalls, c) :
                                 deviceCalls[e].state # "error")
                             => gridCalls'[c].rejectedBy = deviceCalls[d].l8
                  /\ (\E e \in CallsOf(deviceCalls, c) :
                          deviceCalls[e].state = "error")
                         => gridCalls'[c].rejectedBy = gridCalls[c].rejectedBy
                  /\ BroadcastCompletion(c)']_vars

\* A broadcast to several L8s has completed with success
C30_Witness ==
    \E c \in 1..Len(gridCalls) :
        /\ gridCalls[c].name = "clearMatrix"
        /\ gridCalls[c].fnCalls = <<0>>
        /\ Cardinality(CallsOf(deviceCalls, c)) >= 2
        /\ \A d \in CallsOf(deviceCalls, c) : deviceCalls[d].state = "ok"

\* ------------------------------------------------------------------------
\* Properties of the session under transport errors, damaged input and
\* reconnection
\* ------------------------------------------------------------------------

\* C32: when the write or the drain of a send reports an error, the step
\* invokes the completion of that send once, with the transport's error;
\* it emits no frameSent and registers no listener, and the send is never
\* pending afterwards: no later step changes it.
C32_TransportErrorCompletesSend ==
    [][\A r \in Requests :
          /\ (writeCallback(r, TRUE) \/ drainCallback(r, TRUE))
                 => /\ requests'[r].stage = "done"
                    /\ requests'[r].calls = 1
                    /\ requests'[r].outcome = "transportError"
                    /\ requests'[r].registration = 0
                    /\ frameSent' = frameSent
                    /\ listeners' = listeners
                    /\ r \notin Range(listeners')
          /\ requests[r].outcome = "transportError"
                 => requests'[r] = requests[r]]_vars

\* A send whose drain failed has completed with the error, and its response
\* has arrived since
C32_Witness ==
    \E r \in Requests :
        /\ requests[r].outcome = "transportError"
        /\ requests[r].calls = 1
        /\ requests[r].stage = "done"
        /\ frameSent = 0
        /\ listeners = <<>>
        /\ \E i \in 1..Len(emitted) : MatchesExpectation(emitted[i], requests[r])

\* getAcceleration has reported an error to the acceleration stream
StreamFailed ==
    \E r \in Requests :
        /\ requests[r].then.type = "stream"
        /\ requests[r].outcome \in {"L8Error", "transportError"}

\* C39: the step in which getAcceleration reports an error to the stream
\* sets the cooldown flag, clears the requested flag, starts no timer and
\* pushes nothing; from then on the cooldown flag stays set, no timer is
\* pending, no poll is issued and nothing is pushed; and a _read during a
\* cooldown only sets the requested flag.
C39_ErrorLeavesStreamInCooldown ==
    [][/\ (~StreamFailed /\ StreamFailed')
              => /\ accelerationStream'.cooldown_
                 /\ ~accelerationStream'.requested_
                 /\ accelerationStream'.timers = 0
                 /\ accelerationStream'.timers = accelerationStream.timers
                 /\ accelerationStream'.pushed = accelerationStream.pushed
                 /\ accelerationStream'.polls = accelerationStream.polls
       /\ StreamFailed
              => /\ accelerationStream'.cooldown_
                 /\ accelerationStream'.timers = 0
                 /\ accelerationStream'.pushed = accelerationStream.pushed
                 /\ accelerationStream'.polls = accelerationStream.polls
       /\ (AccelerationStream_read /\ accelerationStream.cooldown_)
              => /\ accelerationStream'.requested_
                 /\ accelerationStream'.polls = accelerationStream.polls]_vars

\* The process has survived the error of the stream, and a reading that
\* arrived afterwards was not pushed
C39_Witness ==
    /\ StreamFailed
    /\ crashed = "none"
    /\ accelerationStream.cooldown_
    /\ accelerationStream.timers = 0
    /\ accelerationStream.pushed = 0
    /\ \E i \in 1..Len(emitted) : emitted[i].command = CMD_L8_ACC_RESPONSE

\* C40: when the AUTOROTATE frame of a manual setOrientation is answered by
\* the device's error frame, the same step writes the L8_SET_ORIENTATION
\* frame with the code of the orientation and hands the caller's completion
\* to that second send; the completion of the first send is never the
\* caller's, so its error is not reported.
C40_FirstErrorNotSurfaced ==
    [][\A f \in Requests :
          requests[f].kind = "setOrientationManual"
              => /\ requests[f].then.type = "orientation"
                 /\ (/\ requests[f].stage = "listening"
                     /\ requests'[f].outcome = "L8Error"
                     /\ requests[f].then.orientation \in DOMAIN OrientationCode
                     /\ isConnected /\ serialport_ # 0)
                        => /\ writeCalls' - writeCalls
                                  = Len(requests') - Len(requests)
                           /\ \E g \in (Len(requests) + 1)..Len(requests') :
                                  LET second == requests'[g]
                                  IN  /\ second.kind = "setOrientationCode"
                                      /\ second.buffer[4] = CMD_L8_SET_ORIENTATION
                                      /\ ParametersOf(second.buffer) =
                                             <<OrientationCode[
                                                 requests[f].then.orientation]>>
                                      /\ second.call = requests[f].call
                                      /\ second.then = FnThen]_vars

\* The first step failed with the device's error and the caller was told
\* the exchange succeeded
C40_Witness ==
    \E f, g \in Requests :
        /\ requests[f].kind = "setOrientationManual"
        /\ requests[f].outcome = "L8Error"
        /\ requests[g].kind = "setOrientationCode"
        /\ requests[g].call = requests[f].call
        /\ requests[g].then = FnThen
        /\ requests[g].stage = "done"
        /\ requests[g].outcome = "ok"
        /\ requests[g].calls = 1

\* C35: a send has no listener until its drain callback has run: while its
\* write or drain is outstanding, a step that receives frames, matching
\* ones included, leaves it as it is; the successful drain callback of a
\* send that awaits a response registers the listener without invoking the
\* completion; and from then on only a received frame that matches
\* invokes it.
C35_ListenerOnlyAfterDrain ==
    [][\A r \in Requests :
          /\ requests[r].stage \in {"write", "drain"}
                 => /\ r \notin Range(listeners)
                    /\ ReceiveStep
                           => /\ requests'[r] = requests[r]
                              /\ r \notin Range(listeners')
          /\ (/\ drainCallback(r, FALSE)
              /\ requests[r].expectedResponse.kind # "false")
                 => /\ listeners' = Append(listeners, r)
                    /\ requests'[r].stage = "listening"
                    /\ requests'[r].calls = 0
          /\ (Pending(r) /\ requests'[r].calls > requests[r].calls)
                 => /\ ReceiveStep
                    /\ Concerning(emitted', requests[r]) # <<>>]_vars

\* The response of a send has been decoded while its drain was outstanding
C35_Witness ==
    \E r \in Requests :
        /\ requests[r].stage = "drain"
        /\ requests[r].calls = 0
        /\ \E i \in 1..Len(emitted) : MatchesExpectation(emitted[i], requests[r])

\* C33: the logical length of the receive buffer is between 0 and the
\* capacity of the buffer in every state.
C33_LengthWithinCapacity ==
    /\ receiveBuffer_.length >= 0
    /\ receiveBuffer_.length <= BufferCapacity

\* A "data" event of the disturbed line
DamagedReceiveStep ==
    \E p \in 1..Len(ports), data \in DamagedChunks : receive(p, data)

\* C36: when a chunk ends in a fatal decode error, the complete valid
\* frames in front of the damaged bytes are gone from the receive buffer,
\* which then starts with the damaged bytes, and the step emits no
\* frameReceived event and leaves every send as it was, the pending ones
\* that await those frames included.
C36_DecodedFramesLostOnError ==
    [][(DamagedReceiveStep /\ crashed' \in {"magic", "checksum"})
          => /\ emitted' = <<>>
             /\ requests' = requests
             /\ listeners' = listeners
             /\ BadMagic(Buffered') \/ BadChecksum(Buffered')
             /\ \A data \in DamagedChunks :
                    (/\ \E p \in 1..Len(ports) : receive(p, data)
                     /\ receiveBuffer_.length + Len(data) <= BufferCapacity)
                        => LET all == Buffered \o data
                               removed == Len(all) - receiveBuffer_'.length
                           IN  /\ Buffered' = SubSeq(all, removed + 1, Len(all))
                               /\ removed > 0 =>
                                      \E n \in 1..2 :
                                          SubSeq(all, 1, removed)
                                              = concatAll([i \in 1..n |-> PingOk])
      ]_vars

\* The answer to a pending ping was decoded and dropped
C36_Witness ==
    /\ crashed = "magic"
    /\ emitted = <<>>
    /\ Buffered = <<0, 0, 0, 0>>
    /\ \E r \in Requests :
           /\ Pending(r)
           /\ requests[r].calls = 0
           /\ MatchesExpectation([command |-> CMD_OK, parameters |-> <<CMD_PING>>],
                                 requests[r])

\* The ports whose "data" handler can run: the handler is attached in
\* open() and a port emits "data" while it is open
Delivering == {p \in 1..Len(ports) : ports[p].state = "open"}

\* C34: whatever open() and close() calls were made, at most one port
\* delivers data into the receive buffer, and it is the one the handle names.
C34_OneDeliveringTransport ==
    /\ Cardinality(Delivering) <= 1
    /\ \A p \in Delivering : serialport_ = p

\* A step of close(), of open() or of the callbacks of the two
ConnectionStep ==
    \/ close
    \/ reopen
    \/ \E p \in 1..Len(ports) : closeCallback(p)
    \/ \E p \in 1..Len(ports), error \in BOOLEAN : openCallback(p, error)

\* C37: a send that awaits its answer keeps its listener over close(), the
\* close callback, open() and the open callback (none of these steps
\* changes the send or the listeners), and an answer that matches
\* it and arrives on another port than the one it was written to invokes
\* its completion, once and without an error.
C37_ListenerSurvivesReconnect ==
    [][\A r \in Requests :
          Pending(r) =>
              /\ (requests'[r] # requests[r] \/ listeners' # listeners)
                     => ~ConnectionStep
              /\ \A p \in 1..Len(ports) :
                     (/\ p # requests[r].port
                      /\ Concerning(emitted', requests[r]) # <<>>
                      /\ receive(p, PingOk))
                         => /\ requests'[r].stage = "done"
                            /\ requests'[r].calls = 1
                            /\ requests'[r].outcome = "ok"
                            /\ requests'[r].settledOn = p
      ]_vars

\* A send written to a port that is closed by now was completed by an
\* answer that came in on a later port
C37_Witness ==
    \E r \in Requests :
        /\ requests[r].stage = "done"
        /\ requests[r].outcome = "ok"
        /\ requests[r].calls = 1
        /\ ports[requests[r].port].state = "closed"
        /\ requests[r].settledOn # 0
        /\ requests[r].settledOn # requests[r].port

\* C38: while close() and its callback interleave with a send, neither the
\* write callback nor the drain callback finds the handle released, and
\* the completion of the send is invoked at most once.
C38_NoOperationOnReleasedHandle ==
    [][\A r \in Requests, error \in BOOLEAN :
          (writeCallback(r, error) \/ drainCallback(r, error))
              => /\ crashed' # "TypeError"
                 /\ requests'[r].calls <= 1
      ]_vars

\* The operation a promise stands for has ended: nobody holds the generated
\* callback, or the open or close callback of its port has run, or the
\* completion of its send has been invoked
OperationEnded(promise) ==
    \/ ~promise.handed
    \/ /\ promise.method = "open"
       /\ ports[promise.ref].state # "opening"
    \/ /\ promise.method = "close"
       /\ ports[promise.ref].state # "closing"
    \/ /\ promise.method = "send"
       /\ requests[promise.ref].stage = "done"

\* The operation a promise stands for has ended with an error: the call
\* threw, or its callback was called with an error
OperationFailed(promise) ==
    \/ ~promise.handed
    \/ /\ promise.handed
       /\ promise.method = "open"
       /\ ports[promise.ref].openResult = "error"
    \/ /\ promise.handed
       /\ promise.method = "close"
       /\ ports[promise.ref].state # "closed"
    \/ /\ promise.handed
       /\ promise.method = "send"
       /\ requests[promise.ref].outcome # "ok"

\* C31: a promise returned by open, close or a command called without its
\* callback is pending exactly as long as its operation has not ended, and
\* is then rejected if the operation ended with an error and fulfilled
\* if it did not.
C31_PromiseSettledWhenOperationEnds ==
    \A k \in 1..Len(promises) :
        /\ promises[k].state = "pending" <=> ~OperationEnded(promises[k])
        /\ promises[k].state = "rejected"
               => OperationFailed(promises[k])
        /\ promises[k].state = "fulfilled"
               => ~OperationFailed(promises[k])

====
